---------------------------- MODULE Spec2Model ----------------------------
(***************************************************************************)
(* Model of the C4 constructor's Structurizr DSL translator: the generator *)
(* (dslGenerator.ts), the parser (dslParser.ts), the DSL validation gate   *)
(* (validation.ts), and the two dialogs that load parsed text into the     *)
(* workspace store (DSLEditorModal.tsx, store loadWorkspace).              *)
(*                                                                         *)
(* Text is modelled as text: every DSL document, line, name and id is a    *)
(* string, and the regular expressions of the source are scanners over     *)
(* its characters.                                                        *)
(***************************************************************************)
EXTENDS Integers, Sequences, FiniteSets, TLC

(***************************************************************************)
(* Strings                                                                 *)
(***************************************************************************)

\* JavaScript's undefined (an absent optional field).
Undefined == "<undefined>"

\* JavaScript's null where a string may stand.
Null == "<null>"

\* JavaScript truthiness of a string-or-undefined value.
Truthy(v) == v # Undefined /\ v # ""

\* The characters of s from index a to index b (1-based, inclusive), clamped
\* to the string: out-of-range indexes give the empty string.
Slice(s, a, b) ==
  LET lo == IF a < 1 THEN 1 ELSE a
      hi == IF b > Len(s) THEN Len(s) ELSE b
  IN IF lo > hi THEN "" ELSE SubSeq(s, lo, hi)

\* The character of s at index i, "" beyond its ends.
Char(s, i) == IF i >= 1 /\ i <= Len(s) THEN SubSeq(s, i, i) ELSE ""

StartsWith(s, p) == Slice(s, 1, Len(p)) = p

EndsWith(s, p) == Len(p) <= Len(s) /\ Slice(s, Len(s) - Len(p) + 1, Len(s)) = p

\* s from index i (1-based) to its end.
From(s, i) == Slice(s, i, Len(s))

LowerChars ==
  {"a", "b", "c", "d", "e", "f", "g", "h", "i", "j", "k", "l", "m",
   "n", "o", "p", "q", "r", "s", "t", "u", "v", "w", "x", "y", "z"}

UpperChars ==
  {"A", "B", "C", "D", "E", "F", "G", "H", "I", "J", "K", "L", "M",
   "N", "O", "P", "Q", "R", "S", "T", "U", "V", "W", "X", "Y", "Z"}

DigitChars == {"0", "1", "2", "3", "4", "5", "6", "7", "8", "9"}

\* [a-zA-Z]
IsLetter(c) == c \in LowerChars \cup UpperChars

\* [a-zA-Z0-9]
IsAlnum(c) == c \in LowerChars \cup UpperChars \cup DigitChars

\* \w
IsWord(c) == IsAlnum(c) \/ c = "_"

\* [\w.]
IsIdentChar(c) == IsWord(c) \/ c = "."

\* \s
IsSpace(c) == c \in {" ", "\t", "\n", "\r", "\f"}

\* \d
IsDigit(c) == c \in DigitChars

\* The index after the longest run of white space from i: \s*
SpacesEnd(s, i) ==
  IF i > Len(s) THEN i
  ELSE CHOOSE j \in i..(Len(s) + 1) :
         /\ j > Len(s) \/ ~IsSpace(Char(s, j))
         /\ \A k \in i..(j - 1) : IsSpace(Char(s, k))

\* The index after the longest run of identifier characters from i: [\w.]*
IdentEnd(s, i) ==
  IF i > Len(s) THEN i
  ELSE CHOOSE j \in i..(Len(s) + 1) :
         /\ j > Len(s) \/ ~IsIdentChar(Char(s, j))
         /\ \A k \in i..(j - 1) : IsIdentChar(Char(s, k))

\* The index after the longest run of digits from i: \d*
DigitsEnd(s, i) ==
  IF i > Len(s) THEN i
  ELSE CHOOSE j \in i..(Len(s) + 1) :
         /\ j > Len(s) \/ ~IsDigit(Char(s, j))
         /\ \A k \in i..(j - 1) : IsDigit(Char(s, k))

\* The index after the longest run of characters other than '"' from i: [^"]*
NonQuoteEnd(s, i) ==
  IF i > Len(s) THEN i
  ELSE CHOOSE j \in i..(Len(s) + 1) :
         /\ j > Len(s) \/ Char(s, j) = "\""
         /\ \A k \in i..(j - 1) : Char(s, k) # "\""

\* The index before the longest run, ending at i, of white space.
SpaceStart(s, i) ==
  IF i < 1 THEN i
  ELSE CHOOSE j \in 0..i :
         /\ j < 1 \/ ~IsSpace(Char(s, j))
         /\ \A k \in (j + 1)..i : IsSpace(Char(s, k))

\* String.prototype.trim
Trim(s) == Slice(s, SpacesEnd(s, 1), SpaceStart(s, Len(s)))

\* String.prototype.repeat
RECURSIVE Repeat(_, _)
Repeat(s, n) == IF n <= 0 THEN "" ELSE s \o Repeat(s, n - 1)

\* Array.prototype.join
RECURSIVE Join(_, _)
Join(parts, sep) ==
  IF Len(parts) = 0 THEN ""
  ELSE IF Len(parts) = 1 THEN parts[1]
  ELSE Join(SubSeq(parts, 1, Len(parts) \div 2), sep) \o sep
       \o Join(SubSeq(parts, (Len(parts) \div 2) + 1, Len(parts)), sep)

\* String.prototype.split on a one-character separator: the texts between
\* the separators, from the start of s to its end.
Split(s, sep) ==
  LET at == SelectSeq([i \in 1..Len(s) |-> i], LAMBDA i : Char(s, i) = sep)
  IN [k \in 1..(Len(at) + 1) |->
        Slice(s, IF k = 1 THEN 1 ELSE at[k - 1] + 1,
                 IF k > Len(at) THEN Len(s) ELSE at[k] - 1)]

\* String.prototype.includes
Includes(s, p) ==
  \E i \in 1..(Len(s) - Len(p) + 1) : Slice(s, i, i + Len(p) - 1) = p

\* The decimal digits of a natural number.
DigitOf(d) ==
  CASE d = 0 -> "0" [] d = 1 -> "1" [] d = 2 -> "2" [] d = 3 -> "3" [] d = 4 -> "4"
    [] d = 5 -> "5" [] d = 6 -> "6" [] d = 7 -> "7" [] d = 8 -> "8" [] d = 9 -> "9"

RECURSIVE NatToString(_)
NatToString(n) ==
  IF n < 10 THEN DigitOf(n) ELSE NatToString(n \div 10) \o DigitOf(n % 10)

\* Number to string in a template literal, for an integer.
NumberToString(n) == IF n < 0 THEN "-" \o NatToString(0 - n) ELSE NatToString(n)

ValueOfDigit(c) ==
  CASE c = "0" -> 0 [] c = "1" -> 1 [] c = "2" -> 2 [] c = "3" -> 3 [] c = "4" -> 4
    [] c = "5" -> 5 [] c = "6" -> 6 [] c = "7" -> 7 [] c = "8" -> 8 [] c = "9" -> 9

RECURSIVE ParseNat(_, _)
ParseNat(s, acc) ==
  IF s = "" THEN acc ELSE ParseNat(Tail(s), acc * 10 + ValueOfDigit(Head(s)))

\* parseInt of a string matching -?\d+
ParseInt(s) ==
  IF StartsWith(s, "-") THEN 0 - ParseNat(Tail(s), 0) ELSE ParseNat(s, 0)

(***************************************************************************)
(* Maps (JavaScript Map with string keys): functions on a finite key set   *)
(***************************************************************************)

EmptyMap == [k \in {} |-> Undefined]

\* Map.prototype.get
MapGet(m, k) == IF k \in DOMAIN m THEN m[k] ELSE Undefined

\* Map.prototype.set
MapSet(m, k, v) == [x \in (DOMAIN m) \cup {k} |-> IF x = k THEN v ELSE m[x]]

\* A value inside a template literal: undefined prints as the word.
Template(v) == IF v = Undefined THEN "undefined" ELSE v

(***************************************************************************)
(* validation.ts                                                           *)
(***************************************************************************)

\* sanitizeKey: runs of white space become one '_', then every character
\* outside [a-zA-Z0-9_-] is removed.
sanitizeKeyFrom(key, i) ==
  Join([k \in 1..(Len(key) - i + 1) |->
          IF IsSpace(Char(key, i + k - 1))
          THEN IF k > 1 /\ IsSpace(Char(key, i + k - 2)) THEN "" ELSE "_"
          ELSE IF IsWord(Char(key, i + k - 1)) \/ Char(key, i + k - 1) = "-"
               THEN Char(key, i + k - 1) ELSE ""], "")

sanitizeKey(key) == IF ~Truthy(key) THEN "" ELSE sanitizeKeyFrom(key, 1)

\* The number of occurrences of the character c in s: (s.match(/c/g) || []).length
CountChar(s, c) == Cardinality({i \in 1..Len(s) : Char(s, i) = c})

\* validateDSL: Null when it returns, the message of the ValidationError it
\* throws otherwise.
validateDSL(dsl) ==
  IF dsl = "" \/ Trim(dsl) = "" THEN "DSL content is empty"
  ELSE IF ~Includes(dsl, "workspace") THEN "DSL must contain a workspace definition"
  ELSE IF CountChar(dsl, "{") # CountChar(dsl, "}") THEN "DSL has unbalanced braces"
  ELSE Null

(***************************************************************************)
(* dslGenerator.ts                                                         *)
(***************************************************************************)

indent == "    "

escapeFrom(str, i) ==
  Join([k \in 1..(Len(str) - i + 1) |->
          CASE Char(str, i + k - 1) = "\"" -> "\\\""
            [] Char(str, i + k - 1) = "\n" -> "\\n"
            [] OTHER -> Char(str, i + k - 1)], "")

\* escape: '"' becomes '\"' and a newline becomes '\n' (backslash, n).
escape(str) == IF ~Truthy(str) THEN "" ELSE escapeFrom(str, 1)

\* /^[a-zA-Z][a-zA-Z0-9_]*$/.test(id)
IsValidIdentifier(id) ==
  /\ Len(id) >= 1
  /\ IsLetter(Char(id, 1))
  /\ \A i \in 2..Len(id) : IsWord(Char(id, i))

\* name.replace(/[^a-zA-Z0-9]/g, '')
StripNonAlnum(s, i) ==
  Join([k \in 1..(Len(s) - i + 1) |->
          IF IsAlnum(Char(s, i + k - 1)) THEN Char(s, i + k - 1) ELSE ""], "")

generateIdentifier(element) ==
  IF IsValidIdentifier(element.id) THEN element.id
  ELSE LET base == StripNonAlnum(element.name, 1)
       IN (IF base # "" THEN base ELSE "element") \o "_" \o Slice(element.id, 1, 4)

\* The identifiers map after generateModel's forEach: for an id that occurs
\* more than once the last element's identifier stays.
MapIdentifiers(workspace) ==
  LET els == workspace.elements
      last(id) == CHOOSE i \in 1..Len(els) :
                    /\ els[i].id = id
                    /\ \A j \in 1..Len(els) : els[j].id = id => j <= i
  IN [id \in {els[i].id : i \in 1..Len(els)} |-> generateIdentifier(els[last(id)])]

\* The quoted properties of an element line, and its tags part.  An absent
\* tags field is the empty sequence (el.tags || []).
ElementProperties(el) ==
  "\"" \o escape(el.name) \o "\""
  \o (IF Truthy(el.description) THEN " \"" \o escape(el.description) \o "\"" ELSE "")
  \o (IF Truthy(el.technology) THEN " \"" \o escape(el.technology) \o "\"" ELSE "")

ElementTagsPart(el) ==
  LET tags == el.tags
              \o (IF el.isExternal = TRUE THEN <<"External">> ELSE <<>>)
  IN IF Len(tags) > 0 THEN " \"" \o Join(tags, ",") \o "\"" ELSE ""

\* A generator that writes the elements of a list from the last to the first.
RECURSIVE generateNestedElementsReversed(_, _, _, _)
generateNestedElementsReversed(elements, workspace, indentLevel, identifiers) ==
  IF elements = <<>> THEN <<>>
  ELSE
    LET el == Head(elements)
        currentIndent == Repeat(indent, indentLevel)
        children == SelectSeq(workspace.elements, LAMBDA child : child.parentId = el.id)
        inner == generateNestedElementsReversed(children, workspace, indentLevel + 1, identifiers)
        decl == currentIndent \o Template(MapGet(identifiers, el.id)) \o " = " \o el.type
                \o " " \o ElementProperties(el) \o ElementTagsPart(el)
    IN generateNestedElementsReversed(Tail(elements), workspace, indentLevel, identifiers)
       \o (IF el.type = "group"
           THEN <<currentIndent \o "group \"" \o escape(el.name) \o "\" {">>
                \o inner \o <<currentIndent \o "}">>
           ELSE IF Len(children) > 0
           THEN <<decl \o " {">> \o inner \o <<currentIndent \o "}">>
           ELSE <<decl>>)

RECURSIVE generateNestedElements(_, _, _, _)
generateNestedElements(elements, workspace, indentLevel, identifiers) ==
  IF elements = <<>> THEN <<>>
  ELSE
    LET el == Head(elements)
        currentIndent == Repeat(indent, indentLevel)
        children == SelectSeq(workspace.elements, LAMBDA child : child.parentId = el.id)
        inner == generateNestedElements(children, workspace, indentLevel + 1, identifiers)
        decl == currentIndent \o Template(MapGet(identifiers, el.id)) \o " = " \o el.type
                \o " " \o ElementProperties(el) \o ElementTagsPart(el)
    IN (IF el.type = "group"
        THEN <<currentIndent \o "group \"" \o escape(el.name) \o "\" {">>
             \o inner \o <<currentIndent \o "}">>
        ELSE IF Len(children) > 0
        THEN <<decl \o " {">> \o inner \o <<currentIndent \o "}">>
        ELSE <<decl>>)
       \o generateNestedElements(Tail(elements), workspace, indentLevel, identifiers)

\* A generator that writes a line for every relationship, whether or not its
\* ends have identifiers.
RelationshipLinesUnchecked(relationships, identifiers) ==
  LET line(rel) ==
        <<Repeat(indent, 2) \o Template(MapGet(identifiers, rel.sourceId)) \o " -> "
          \o Template(MapGet(identifiers, rel.targetId))
          \o " \"" \o escape(rel.description) \o "\"">>
      RECURSIVE all(_)
      all(i) == IF i > Len(relationships) THEN <<>> ELSE line(relationships[i]) \o all(i + 1)
  IN all(1)

RelationshipLines(relationships, identifiers) ==
  LET line(rel) ==
        LET sourceIdent == MapGet(identifiers, rel.sourceId)
            targetIdent == MapGet(identifiers, rel.targetId)
            techPart == IF Truthy(rel.technology)
                        THEN " \"" \o escape(rel.technology) \o "\"" ELSE ""
            tagsPart == IF Len(rel.tags) > 0
                        THEN " \"" \o Join(rel.tags, ",") \o "\"" ELSE ""
        IN IF Truthy(sourceIdent) /\ Truthy(targetIdent)
           THEN <<Repeat(indent, 2) \o sourceIdent \o " -> " \o targetIdent
                  \o " \"" \o escape(rel.description) \o "\"" \o techPart \o tagsPart>>
           ELSE <<>>
      RECURSIVE all(_)
      all(i) == IF i > Len(relationships) THEN <<>> ELSE line(relationships[i]) \o all(i + 1)
  IN all(1)

generateModel(workspace, identifiers) ==
  LET rootElements == SelectSeq(workspace.elements, LAMBDA e : ~Truthy(e.parentId))
  IN generateNestedElements(rootElements, workspace, 2, identifiers)
     \o (IF Len(workspace.elements) > 0 THEN <<"">> ELSE <<>>)
     \o RelationshipLines(workspace.relationships, identifiers)

generateStyles(indent3, indent4) ==
  LET style(tag, background, color) ==
        <<indent3 \o "element \"" \o tag \o "\" {">>
        \o (IF tag = "Person" THEN <<indent4 \o "shape Person">> ELSE <<>>)
        \o <<indent4 \o "background " \o background,
             indent4 \o "color " \o color,
             indent3 \o "}">>
  IN style("Person", "#08427b", "#ffffff")
     \o style("Software System", "#1168bd", "#ffffff")
     \o style("Container", "#438dd5", "#ffffff")
     \o style("Component", "#85bbf0", "#000000")
     \o <<indent3 \o "element \"External\" {",
          indent4 \o "background #999999",
          indent4 \o "color #ffffff",
          indent3 \o "}">>

\* The kinds of element whose positions a view of the given kind exports.
validTypes(viewType) ==
  CASE viewType = "systemLandscape" -> {"person", "softwareSystem"}
    [] viewType = "systemContext" -> {"person", "softwareSystem"}
    [] viewType = "container" -> {"person", "softwareSystem", "container"}
    [] viewType = "component" -> {"person", "softwareSystem", "container", "component"}
    [] OTHER -> {}

viewHeader(view, identifiers) ==
  LET sourceIdent == IF Truthy(view.softwareSystemId)
                     THEN Template(MapGet(identifiers, view.softwareSystemId)) ELSE ""
      containerIdent == IF Truthy(view.containerId)
                        THEN Template(MapGet(identifiers, view.containerId)) ELSE ""
      quoted == "\"" \o sanitizeKey(view.key) \o "\" \"" \o escape(view.description) \o "\""
  IN CASE view.type = "systemLandscape" -> "systemLandscape " \o quoted
       [] view.type = "systemContext" -> "systemContext " \o sourceIdent \o " " \o quoted
       [] view.type = "container" -> "container " \o sourceIdent \o " " \o quoted
       [] view.type = "component" -> "component " \o containerIdent \o " " \o quoted
       [] OTHER -> ""

\* The position-metadata comment lines of one view block.  Positions are
\* integers here, and Math.round leaves an integer as it is.
PositionLines(view, workspace, identifiers) ==
  LET els == workspace.elements
      RECURSIVE all(_)
      all(i) ==
        IF i > Len(els) THEN <<>>
        ELSE (IF els[i].type \in validTypes(view.type)
                 /\ Truthy(MapGet(identifiers, els[i].id))
              THEN <<Repeat(indent, 3) \o "# element " \o MapGet(identifiers, els[i].id)
                     \o " " \o NumberToString(els[i].position.x)
                     \o " " \o NumberToString(els[i].position.y)>>
              ELSE <<>>)
             \o all(i + 1)
  IN all(1)

generateViews(workspace, identifiers) ==
  LET indent2 == Repeat(indent, 2)
      indent3 == Repeat(indent, 3)
      indent4 == Repeat(indent, 4)
      systems == SelectSeq(workspace.elements, LAMBDA e : e.type = "softwareSystem")
      block(view) ==
        <<indent2 \o viewHeader(view, identifiers) \o " {", indent3 \o "include *">>
        \o PositionLines(view, workspace, identifiers)
        \o <<indent3 \o "autoLayout lr", indent2 \o "}", "">>
      RECURSIVE all(_)
      all(i) == IF i > Len(workspace.views) THEN <<>>
                ELSE block(workspace.views[i]) \o all(i + 1)
  IN (IF Len(workspace.views) = 0
      THEN IF Len(systems) > 0
           THEN <<indent2 \o "systemContext " \o Template(MapGet(identifiers, systems[1].id))
                  \o " \"Context\" \"Context View\" {",
                  indent3 \o "include *", indent3 \o "autoLayout lr", indent2 \o "}">>
           ELSE <<>>
      ELSE all(1))
     \o <<indent2 \o "styles {">> \o generateStyles(indent3, indent4) \o <<indent2 \o "}">>

\* generate: the whole document, its lines joined by newlines.
generate(workspace) ==
  LET identifiers == MapIdentifiers(workspace)
  IN Join(<<"workspace \"" \o escape(workspace.name) \o "\" \""
            \o escape(workspace.description) \o "\" {", "", indent \o "model {">>
          \o generateModel(workspace, identifiers)
          \o <<indent \o "}", "", indent \o "views {">>
          \o generateViews(workspace, identifiers)
          \o <<indent \o "}", "}">>, "\n")

generateDSL(workspace) == generate(workspace)

(***************************************************************************)
(* dslParser.ts: the regular expressions                                   *)
(*                                                                         *)
(* A match is a regular expression read from left to right over a text:    *)
(* the text (s), whether what was read so far has matched (ok), the index  *)
(* after the matched part (next) and the texts of the capture groups       *)
(* closed so far (groups; groups[k] is match[k] of JavaScript, Undefined   *)
(* for a group that took no part).  Every piece of a pattern takes the     *)
(* match before it to the match after it; a failed match stays failed.     *)
(* The patterns of the parser never succeed by giving characters back:     *)
(* every run is followed by a character outside the run's class.           *)
(***************************************************************************)

\* The start of a match at index i of s.
Begin(s, i) == [s |-> s, ok |-> TRUE, next |-> i, groups |-> <<>>]

Fail(m) == [m EXCEPT !.ok = FALSE]

\* The text lit stands at index i of s.
StartsAt(s, i, lit) == Slice(s, i, i + Len(lit) - 1) = lit

\* A literal text.
Lit(m, lit) ==
  IF m.ok /\ StartsAt(m.s, m.next, lit) THEN [m EXCEPT !.next = @ + Len(lit)] ELSE Fail(m)

\* lit?
OptionalLit(m, lit) ==
  IF m.ok /\ StartsAt(m.s, m.next, lit) THEN [m EXCEPT !.next = @ + Len(lit)] ELSE m

\* X+, for the match n of X* after m.
Some(m, n) == IF n.ok /\ n.next > m.next THEN n ELSE Fail(m)

\* (X), for the match n of X after m: the group's text is what n read.
Group(m, n) ==
  IF n.ok THEN [n EXCEPT !.groups = Append(@, Slice(m.s, m.next, n.next - 1))]
  ELSE Fail(m)

\* (?:X)? with one group in X, for the match n of X after m.
Optional(m, n) ==
  IF n.ok THEN n
  ELSE IF m.ok THEN [m EXCEPT !.groups = Append(@, Undefined)]
  ELSE m

\* \s*
Spaces(m) == IF m.ok THEN [m EXCEPT !.next = SpacesEnd(m.s, @)] ELSE m

\* \s+
Spaces1(m) == IF m.ok THEN Some(m, Spaces(m)) ELSE m

\* ([^"]*)
QuotedText(m) ==
  Group(m, IF m.ok THEN [m EXCEPT !.next = NonQuoteEnd(m.s, @)] ELSE m)

\* "([^"]*)"
Quoted(m) == IF m.ok THEN Lit(QuotedText(Lit(m, "\"")), "\"") ELSE m

\* (?:\s+"([^"]*)")?
OptionalQuoted(m) == IF m.ok THEN Optional(m, Quoted(Spaces1(m))) ELSE m

\* [\w.]*
IdentChars(m) == IF m.ok THEN [m EXCEPT !.next = IdentEnd(m.s, @)] ELSE m

\* ([\w.]+)
Identifier(m) == IF m.ok THEN Group(m, Some(m, IdentChars(m))) ELSE m

\* \d+
Digits1(m) == Some(m, IF m.ok THEN [m EXCEPT !.next = DigitsEnd(m.s, @)] ELSE m)

\* (-?\d+)
Integer(m) == IF m.ok THEN Group(m, Digits1(OptionalLit(m, "-"))) ELSE m

\* (w1|w2|...) for words none of which begins another.
OneOf(m, words) ==
  IF m.ok /\ \E w \in words : StartsAt(m.s, m.next, w)
  THEN Group(m, Lit(m, CHOOSE w \in words : StartsAt(m.s, m.next, w)))
  ELSE Fail(m)

ElementKeywords ==
  {"person", "softwareSystem", "container", "component",
   "deploymentNode", "infrastructureNode"}

\* /^([\w.]+)\s*=\s*(person|softwareSystem|container|component|deploymentNode|
\*   infrastructureNode)\s+"([^"]*)"(?:\s+"([^"]*)")?(?:\s+"([^"]*)")?(?:\s+"([^"]*)")?/
elementMatch(line) ==
  OptionalQuoted(OptionalQuoted(OptionalQuoted(Quoted(Spaces1(
    OneOf(Spaces(Lit(Spaces(Identifier(Begin(line, 1))), "=")), ElementKeywords))))))

\* /^group\s+"([^"]*)"/
groupMatch(line) == Quoted(Spaces1(Lit(Begin(line, 1), "group")))

\* /^([\w.]+)\s*->\s*([\w.]+)\s+"([^"]*)"(?:\s+"([^"]*)")?/
relMatch(line) ==
  OptionalQuoted(Quoted(Spaces1(
    Identifier(Spaces(Lit(Spaces(Identifier(Begin(line, 1))), "->"))))))

\* /^systemLandscape\s+"([^"]*)"\s+"([^"]*)"/
landscapeMatch(line) ==
  Quoted(Spaces1(Quoted(Spaces1(Lit(Begin(line, 1), "systemLandscape")))))

\* /^<keyword>\s+([\w.]+)\s+"([^"]*)"\s+"([^"]*)"/ for the systemContext,
\* container and component view headers.
anchoredViewMatch(keyword, line) ==
  Quoted(Spaces1(Quoted(Spaces1(Identifier(Spaces1(Lit(Begin(line, 1), keyword)))))))

\* /^element\s+([\w.]+)\s+\{/
elementBlockMatch(line) ==
  Lit(Spaces1(Identifier(Spaces1(Lit(Begin(line, 1), "element")))), "{")

\* /^element\s+([\w.]+)\s+(-?\d+)\s+(-?\d+)/
elementPosMatch(line) ==
  Integer(Spaces1(Integer(Spaces1(Identifier(Spaces1(Lit(Begin(line, 1), "element")))))))

\* /^position\s+(-?\d+)\s+(-?\d+)/
posMatch(line) ==
  Integer(Spaces1(Integer(Spaces1(Lit(Begin(line, 1), "position")))))

\* /workspace\s+"([^"]*)"(?:\s+"([^"]*)")?/ read from index i of the text.
workspaceMatchAt(dsl, i) == OptionalQuoted(Quoted(Spaces1(Lit(Begin(dsl, i), "workspace"))))

\* dsl.match(/workspace\s+"([^"]*)"(?:\s+"([^"]*)")?/): the leftmost match.
workspaceMatch(dsl) ==
  LET hits == {i \in 1..Len(dsl) :
                 StartsAt(dsl, i, "workspace") /\ workspaceMatchAt(dsl, i).ok}
  IN IF hits = {} THEN Fail(Begin(dsl, 1))
     ELSE workspaceMatchAt(dsl, CHOOSE i \in hits : \A j \in hits : i <= j)

\* line.replace(/^[#\/]+\s*/, '')
RECURSIVE CommentMarksEnd(_, _)
CommentMarksEnd(s, i) ==
  IF i <= Len(s) /\ Char(s, i) \in {"#", "/"} THEN CommentMarksEnd(s, i + 1) ELSE i

layoutContent(line) ==
  IF CommentMarksEnd(line, 1) > 1
  THEN From(line, SpacesEnd(line, CommentMarksEnd(line, 1)))
  ELSE line

(***************************************************************************)
(* dslParser.ts: the parser                                                *)
(***************************************************************************)

\* The view being assembled: <<>> for null, <<view>> for a view.
NoView == <<>>

\* uuidv4(): the k-th identity a parse draws.  Identities are pairwise
\* distinct; their first four characters are random hexadecimal digits, here
\* taken from the parse's random source (a sequence of four-character
\* prefixes, used cyclically).
Pad12(k) == Slice("000000000000", 1, 12 - Len(NatToString(k))) \o NatToString(k)

uuidv4(context) ==
  context.random[(context.uuids % Len(context.random)) + 1]
  \o "0000-0000-4000-8000-" \o Pad12(context.uuids + 1)

\* The context after one identity has been drawn.
Drawn(context) == [context EXCEPT !.uuids = @ + 1]

\* The context parse() constructs.
NewContext(random) ==
  [identifierMap |-> EmptyMap, elements |-> <<>>, relationships |-> <<>>,
   views |-> <<>>, positions |-> EmptyMap, pendingRelationships |-> <<>>,
   uuids |-> 0, random |-> random]

\* The state of parseDsl's loop before its first line: the context, the
\* loop's locals and i, the loop's (zero-based) line index.
NewScan(context) ==
  [i |-> 0, context |-> context, elementStack |-> <<>>, currentInViews |-> FALSE,
   currentInStyles |-> FALSE, currentView |-> NoView, currentViewElement |-> Null]

\* handleModelLine, the element branch; groups are those of elementMatch.
declareElement(groups, line, st) ==
  LET id == uuidv4(st.context)
      nested == Len(st.elementStack) > 0
      parent == st.elementStack[Len(st.elementStack)]
      fullIdent == IF nested THEN parent.identifier \o "." \o groups[1] ELSE groups[1]
  IN [st EXCEPT
        !.elementStack =
          IF EndsWith(line, "{")
          THEN Append(@, [identifier |-> fullIdent, id |-> id, type |-> groups[2]])
          ELSE @,
        !.context =
          [Drawn(st.context) EXCEPT
             !.identifierMap = MapSet(MapSet(@, fullIdent, id), groups[1], id),
             !.elements =
               Append(@, [id |-> id, identifier |-> fullIdent, type |-> groups[2],
                          name |-> groups[3],
                          description |-> IF Truthy(groups[4]) THEN groups[4] ELSE "",
                          technology |-> groups[5],
                          parentId |-> IF nested THEN parent.id ELSE Undefined,
                          tags |-> IF Truthy(groups[6]) THEN Split(groups[6], ",")
                                   ELSE <<>>])]]

\* handleModelLine, the group branch; groups are those of groupMatch.
declareGroup(groups, st) ==
  LET id == uuidv4(st.context)
      ident == "group_" \o Slice(id, 1, 4)
      nested == Len(st.elementStack) > 0
  IN [st EXCEPT
        !.elementStack = Append(@, [identifier |-> ident, id |-> id, type |-> "group"]),
        !.context =
          [Drawn(st.context) EXCEPT !.elements =
             Append(@, [id |-> id, identifier |-> ident, type |-> "group",
                        name |-> groups[1], description |-> "", technology |-> Undefined,
                        parentId |-> IF nested
                                     THEN st.elementStack[Len(st.elementStack)].id
                                     ELSE Undefined,
                        tags |-> <<>>])]]

\* A relationship line resolved as soon as it is read: it is kept only when
\* both identifiers are declared on an earlier line.
pendRelationshipEager(groups, context) ==
  IF Truthy(MapGet(context.identifierMap, groups[1]))
     /\ Truthy(MapGet(context.identifierMap, groups[2]))
  THEN [context EXCEPT !.pendingRelationships =
          Append(@, [sourceIdentifier |-> groups[1], targetIdentifier |-> groups[2],
                     description |-> groups[3], technology |-> groups[4]])]
  ELSE context

\* handleModelLine, the relationship branch; groups are those of relMatch.  The
\* line's identifiers are kept, unresolved, in pendingRelationships.
pendRelationship(groups, context) ==
  [context EXCEPT !.pendingRelationships =
     Append(@, [sourceIdentifier |-> groups[1], targetIdentifier |-> groups[2],
                description |-> groups[3], technology |-> groups[4]])]

\* handleModelLine: the loop's state after a line of the model section.
handleModelLine(line, st) ==
  LET element == elementMatch(line)
      group == groupMatch(line)
      rel == relMatch(line)
  IN IF element.ok THEN declareElement(element.groups, line, st)
     ELSE IF group.ok THEN declareGroup(group.groups, st)
     ELSE IF rel.ok THEN [st EXCEPT !.context = pendRelationship(rel.groups, @)]
     ELSE st

\* A view as handleViewLine builds it.
NewView(context, type, key, softwareSystemId, containerId, description) ==
  [id |-> uuidv4(context), key |-> key, type |-> type,
   softwareSystemId |-> softwareSystemId, containerId |-> containerId,
   name |-> key, description |-> description]

\* setView(view), after the view's identity has been drawn.
setView(st, view) == [st EXCEPT !.context = Drawn(@), !.currentView = <<view>>]

\* handleViewLine, the view opened by a systemLandscape header.
landscapeView(groups, context) ==
  NewView(context, "systemLandscape", groups[1], Undefined, Undefined, groups[2])

\* handleViewLine, the view opened by a systemContext or container header:
\* its anchor is looked up in the identifier table.
systemView(type, groups, context) ==
  NewView(context, type, groups[2], MapGet(context.identifierMap, groups[1]),
          Undefined, groups[3])

\* handleViewLine, the view opened by a component header.
componentView(groups, context) ==
  NewView(context, "component", groups[2], Undefined,
          MapGet(context.identifierMap, groups[1]), groups[3])

\* handleViewLine, the elementPosMatch branch: the position is kept under the
\* identifier and under every declared identifier that ends with it.
markPosition(groups, st) ==
  LET pos == [x |-> ParseInt(groups[2]), y |-> ParseInt(groups[3])]
      keys == {groups[1]}
              \cup {k \in DOMAIN st.context.identifierMap : EndsWith(k, "." \o groups[1])}
  IN [st EXCEPT !.context.positions =
        [k \in (DOMAIN @) \cup keys |-> IF k \in keys THEN pos ELSE @[k]]]

\* handleViewLine: the loop's state after a line of the views section.
handleViewLine(line, st) ==
  LET landscape == landscapeMatch(line)
      systemContext == anchoredViewMatch("systemContext", line)
      container == anchoredViewMatch("container", line)
      component == anchoredViewMatch("component", line)
      elementPos == elementPosMatch(line)
      elementBlock == elementBlockMatch(line)
  IN IF landscape.ok THEN setView(st, landscapeView(landscape.groups, st.context))
     ELSE IF systemContext.ok
     THEN setView(st, systemView("systemContext", systemContext.groups, st.context))
     ELSE IF container.ok
     THEN setView(st, systemView("container", container.groups, st.context))
     ELSE IF component.ok THEN setView(st, componentView(component.groups, st.context))
     ELSE IF elementPos.ok THEN markPosition(elementPos.groups, st)
     ELSE IF elementBlock.ok
     THEN [st EXCEPT !.currentViewElement = elementBlock.groups[1]]
     ELSE st

\* A closing brace that leaves the element stack as it is.
closeBraceKeepingScope(st) ==
  IF st.currentViewElement # Null THEN [st EXCEPT !.currentViewElement = Null]
  ELSE IF st.currentView # NoView
  THEN [st EXCEPT !.context.views = Append(@, st.currentView[1]), !.currentView = NoView]
  ELSE IF st.currentInStyles THEN [st EXCEPT !.currentInStyles = FALSE]
  ELSE IF st.currentInViews THEN [st EXCEPT !.currentInViews = FALSE]
  ELSE st

\* A line consisting of a closing brace.
closeBrace(st) ==
  IF st.currentViewElement # Null THEN [st EXCEPT !.currentViewElement = Null]
  ELSE IF st.currentView # NoView
  THEN [st EXCEPT !.context.views = Append(@, st.currentView[1]), !.currentView = NoView]
  ELSE IF st.currentInStyles THEN [st EXCEPT !.currentInStyles = FALSE]
  ELSE IF st.currentInViews THEN [st EXCEPT !.currentInViews = FALSE]
  ELSE IF Len(st.elementStack) > 0
  THEN [st EXCEPT !.elementStack = SubSeq(@, 1, Len(@) - 1)]
  ELSE st

\* A line of the views section, before handleViewLine: inside an element
\* block a position line gives the block's element its position.
positionLine(line, st) ==
  IF st.currentViewElement # Null /\ posMatch(line).ok
  THEN [st EXCEPT !.context.positions =
          MapSet(@, st.currentViewElement,
                 [x |-> ParseInt(posMatch(line).groups[1]),
                  y |-> ParseInt(posMatch(line).groups[2])])]
  ELSE st

\* A line of the views section.
viewsLine(line, st) == handleViewLine(line, positionLine(line, st))

\* The body of parseDsl's loop for one line.
scanLine(rawLine, st) ==
  LET trimmed == Trim(rawLine)
      isComment == StartsWith(trimmed, "#") \/ StartsWith(trimmed, "//")
      line == IF isComment THEN layoutContent(trimmed) ELSE trimmed
  IN IF trimmed = "" \/ StartsWith(trimmed, "!") THEN st
     ELSE IF isComment /\ ~StartsWith(line, "element ") THEN st
     ELSE IF line = "model {" THEN st
     ELSE IF line = "views {" THEN [st EXCEPT !.currentInViews = TRUE]
     ELSE IF line = "styles {" THEN [st EXCEPT !.currentInStyles = TRUE]
     ELSE IF line = "}" THEN closeBrace(st)
     ELSE IF st.currentInStyles THEN st
     ELSE IF st.currentInViews THEN viewsLine(line, st)
     ELSE handleModelLine(line, st)

\* The next n passes of parseDsl's loop from the state st, by halves: the
\* first half of the passes, then the rest from the state they have left.
RECURSIVE scanNext(_, _, _)
scanNext(lines, st, n) ==
  IF st.i >= Len(lines) \/ n <= 0 THEN st
  ELSE IF n = 1 THEN [scanLine(lines[st.i + 1], st) EXCEPT !.i = @ + 1]
  ELSE scanNext(lines, scanNext(lines, st, n \div 2), n - (n \div 2))

\* parseDsl's loop: for (let i = 0; i < lines.length; i++)
scanLines(lines, st) == scanNext(lines, st, Len(lines) - st.i)

\* parseDsl: the context after the scan of all lines.
parseDsl(lines, context) == scanLines(lines, NewScan(context)).context

PADDING == 40
ELEMENT_WIDTH == 220
ELEMENT_HEIGHT == 140
COL_GAP == 60
ROW_GAP == 80
COLS_PER_ROW == 4

\* A grid without the gaps between columns and rows.
getDefaultPositionNoGap(index) ==
  LET col == index % COLS_PER_ROW
      row == index \div COLS_PER_ROW
  IN [x |-> PADDING + col * ELEMENT_WIDTH, y |-> PADDING + row * ELEMENT_HEIGHT]

\* getDefaultPosition; index is zero-based.
getDefaultPosition(index) ==
  LET col == index % COLS_PER_ROW
      row == index \div COLS_PER_ROW
  IN [x |-> PADDING + col * (ELEMENT_WIDTH + COL_GAP),
      y |-> PADDING + row * (ELEMENT_HEIGHT + ROW_GAP)]

\* el.identifier.split('.').pop()
LastSegment(identifier) ==
  LET dots == {i \in 1..Len(identifier) : Char(identifier, i) = "."}
  IN IF dots = {} THEN identifier
     ELSE From(identifier, (CHOOSE i \in dots : \A j \in dots : j <= i) + 1)

\* The position parse() gives the element at the (zero-based) index.
finalPosition(context, el, index) ==
  LET positions == context.positions
      shortIdent == LastSegment(el.identifier)
  IN IF el.identifier \in DOMAIN positions THEN positions[el.identifier]
     ELSE IF Includes(el.identifier, ".") /\ shortIdent \in DOMAIN positions
     THEN positions[shortIdent]
     ELSE getDefaultPosition(index)

\* The final elements of parse().
finalElements(context) ==
  [i \in 1..Len(context.elements) |->
     LET el == context.elements[i]
     IN [id |-> el.id, type |-> el.type, name |-> el.name,
         description |-> el.description, technology |-> el.technology,
         parentId |-> el.parentId, tags |-> el.tags,
         isExternal |-> \E t \in 1..Len(el.tags) : el.tags[t] = "External",
         position |-> finalPosition(context, el, i - 1)]]

\* A pending relationship accepted when either of its identifiers resolves.
resolvableEither(sourceId, targetId) == Truthy(sourceId) \/ Truthy(targetId)

\* if (sourceId && targetId)
resolvable(sourceId, targetId) == Truthy(sourceId) /\ Truthy(targetId)

\* resolveRelationships, its first loop: the pending relationships whose two
\* identifiers are in the identifier table become relationships.
RECURSIVE resolvePending(_, _)
resolvePending(context, i) ==
  IF i > Len(context.pendingRelationships) THEN context
  ELSE LET rel == context.pendingRelationships[i]
           sourceId == MapGet(context.identifierMap, rel.sourceIdentifier)
           targetId == MapGet(context.identifierMap, rel.targetIdentifier)
       IN IF resolvable(sourceId, targetId)
          THEN resolvePending(
                 [Drawn(context) EXCEPT !.relationships =
                    Append(@, [id |-> uuidv4(context), sourceId |-> sourceId,
                               targetId |-> targetId, description |-> rel.description,
                               technology |-> rel.technology, type |-> "uses",
                               tags |-> <<>>])],
                 i + 1)
          ELSE resolvePending(context, i + 1)

\* A view of any kind anchored on the system counts as its container view.
hasAnchoredView(context, sys) ==
  \E v \in 1..Len(context.views) : context.views[v].softwareSystemId = sys.id

\* context.views.some(v => v.softwareSystemId === sys.id && v.type === 'container')
hasContainerView(context, sys) ==
  \E v \in 1..Len(context.views) :
    /\ context.views[v].softwareSystemId = sys.id
    /\ context.views[v].type = "container"

\* resolveRelationships, its second loop: a container view for every
\* software system that has none.
RECURSIVE autoContainerViews(_, _)
autoContainerViews(context, i) ==
  IF i > Len(context.elements) THEN context
  ELSE LET sys == context.elements[i]
           hasView == hasContainerView(context, sys)
       IN IF sys.type = "softwareSystem" /\ ~hasView
          THEN autoContainerViews(
                 [Drawn(context) EXCEPT !.views =
                    Append(@, [id |-> uuidv4(context), key |-> "view-" \o sys.id,
                               type |-> "container", softwareSystemId |-> sys.id,
                               containerId |-> Undefined,
                               name |-> sys.name \o " - Containers",
                               description |-> "Auto-generated container view"])],
                 i + 1)
          ELSE autoContainerViews(context, i + 1)

\* The element kind taken for the view kind: no view is ever found.
hasDeploymentNodeView(context, dNode) ==
  \E v \in 1..Len(context.views) :
    /\ context.views[v].type = "deploymentNode"
    /\ \/ context.views[v].key = "deploy-" \o dNode.id
       \/ Includes(context.views[v].name, dNode.name)

\* context.views.some(v => v.type === 'deployment' &&
\*   (v.key === `deploy-${dNode.id}` || v.name.includes(dNode.name)))
hasDeploymentView(context, dNode) ==
  \E v \in 1..Len(context.views) :
    /\ context.views[v].type = "deployment"
    /\ \/ context.views[v].key = "deploy-" \o dNode.id
       \/ Includes(context.views[v].name, dNode.name)

\* resolveRelationships, its third loop: a deployment view for every
\* deployment node that has none.
RECURSIVE autoDeploymentViews(_, _)
autoDeploymentViews(context, i) ==
  IF i > Len(context.elements) THEN context
  ELSE LET dNode == context.elements[i]
           hasView == hasDeploymentView(context, dNode)
       IN IF dNode.type = "deploymentNode" /\ ~hasView
          THEN autoDeploymentViews(
                 [Drawn(context) EXCEPT !.views =
                    Append(@, [id |-> uuidv4(context), key |-> "deploy-" \o dNode.id,
                               type |-> "deployment", softwareSystemId |-> Undefined,
                               containerId |-> Undefined,
                               name |-> dNode.name \o " - Deployment",
                               description |-> "Auto-generated deployment view"])],
                 i + 1)
          ELSE autoDeploymentViews(context, i + 1)

\* The auto-generation of missing views (the second and third loop).
autoGenerateViews(context) == autoDeploymentViews(autoContainerViews(context, 1), 1)

resolveRelationships(context) == autoGenerateViews(resolvePending(context, 1))

LandscapeView ==
  [id |-> "landscape", key |-> "landscape", type |-> "systemLandscape",
   softwareSystemId |-> Undefined, containerId |-> Undefined,
   name |-> "System Landscape", description |-> "Auto-generated landscape view"]

\* A landscape view put first only when the text declares no view at all.
ensureLandscapeWhenEmpty(views) ==
  IF Len(views) > 0 THEN views ELSE <<LandscapeView>> \o views

\* parse(), its last step: a landscape view is put first when there is none.
ensureLandscape(views) ==
  IF \E v \in 1..Len(views) : views[v].type = "systemLandscape" THEN views
  ELSE <<LandscapeView>> \o views

\* parse(), after parseDsl: the workspace made of the scanned context.
parsedWorkspace(wm, scanned) ==
  [name |-> IF wm.ok /\ Truthy(wm.groups[1]) THEN wm.groups[1] ELSE "Imported Workspace",
   description |-> IF wm.ok /\ Truthy(wm.groups[2]) THEN wm.groups[2] ELSE "",
   elements |-> finalElements(scanned),
   relationships |-> resolveRelationships(scanned).relationships,
   views |-> ensureLandscape(resolveRelationships(scanned).views)]

\* parse: the workspace of a DSL text; random is the source of the
\* identities' first characters.
parse(dsl, random) ==
  parsedWorkspace(workspaceMatch(dsl), parseDsl(Split(dsl, "\n"), NewContext(random)))

parseDSL(dsl, random) == parse(dsl, random)

(***************************************************************************)
(* State                                                                   *)
(***************************************************************************)

VARIABLES
  pc,          \* where the scenario stands
  workspace,   \* the workspace of the editor (useWorkspaceStore().workspace)
  script,      \* the statements a hand-written text was written from
  dslText,     \* the text in the dialog (dslText of the modals)
  imported,    \* <<>>, or <<w>> for the workspace w of the last parseDSL
  reimported,  \* <<>>, or <<w>> for the workspace w of a second parseDSL
  synthesized, \* <<>>, or <<views>> for the views after a second view synthesis
  error,       \* the dialog's error message, Null when none
  workspaceVersion,      \* how many updates the store has made (workspaceVersion)
  currentViewId,         \* the id of the view on the canvas, Null for null
  selectedElementId,     \* the id of the selected element, Null for null
  selectedRelationshipId \* the id of the selected relationship, Null for null

vars == <<pc, workspace, script, dslText, imported, reimported, synthesized, error,
          workspaceVersion, currentViewId, selectedElementId, selectedRelationshipId>>

\* initialWorkspace of the store.
initialWorkspace ==
  [name |-> "Untitled Workspace", description |-> "A new C4 model workspace",
   elements |-> <<>>, relationships |-> <<>>,
   views |-> <<[id |-> "landscape", key |-> "landscape", type |-> "systemLandscape",
                softwareSystemId |-> Undefined, containerId |-> Undefined,
                name |-> "System Landscape",
                description |-> "The system landscape view for the workspace."]>>]

\* The random sources of a parse: the identities' first four characters.
Randoms == {<<"ab12", "c3d4">>, <<"ab12">>}

(***************************************************************************)
(* Round trip: a workspace is written as text and the text is parsed       *)
(***************************************************************************)

MaxElements == 2

\* The element kinds the round trip is run on (component elements are
\* written and read like container elements).
ElementKinds == {"person", "softwareSystem", "container", "group"}

\* The names of element i: the first element's name may hold double quotes.
ElementNames(i) == IF i = 1 THEN {"Api", "Web \"2\""} ELSE {"Api"}

\* Identities as the editor makes them: uuidv4() of addElement (all with the
\* same first four characters) and a renameElement slug.
ElementIds(i) ==
  {"ab120000-0000-4000-8000-00000000001" \o NatToString(i),
   "E" \o NatToString(i) \o "_Element"}

\* Where the editor's canvas holds element i.
ElementPosition(i) == [x |-> 105 * i, y |-> 0 - 30 * i]

Element(id, type, name, parentId, position) ==
  [id |-> id, type |-> type, name |-> name, description |-> "",
   technology |-> Undefined, tags |-> <<>>, parentId |-> parentId,
   isExternal |-> FALSE, position |-> position]

Relationship(id, sourceId, targetId, description) ==
  [id |-> id, sourceId |-> sourceId, targetId |-> targetId,
   description |-> description, technology |-> Undefined, type |-> "uses", tags |-> <<>>]

View(id, key, type, softwareSystemId, containerId, name, description) ==
  [id |-> id, key |-> key, type |-> type, softwareSystemId |-> softwareSystemId,
   containerId |-> containerId, name |-> name, description |-> description]

\* The element lists of n elements: pairwise distinct ids, every parent an
\* earlier element of the list (so parents exist and are acyclic).
RECURSIVE ElementLists(_)
ElementLists(n) ==
  IF n = 0 THEN {<<>>}
  ELSE {Append(t[1], Element(t[2], t[3], t[4], t[5], ElementPosition(n))) :
          t \in {u \in ElementLists(n - 1) \X ElementIds(n) \X ElementKinds
                       \X ElementNames(n)
                       \X ({Undefined} \cup UNION {ElementIds(i) : i \in 1..(n - 1)}) :
                   u[5] # Undefined => \E i \in 1..(n - 1) : u[1][i].id = u[5]}}

\* The relationship lists over the elements: none, or two in an order that
\* is not the elements' order; no self-loops.
RelationshipLists(elements) ==
  {<<>>}
  \cup (IF Len(elements) < 2 THEN {}
        ELSE {<<Relationship("r1", elements[2].id, elements[1].id, "Calls"),
                Relationship("r2", elements[1].id, elements[2].id, "Uses")>>})

\* The views the store holds for the elements: the landscape view, the
\* container view addElement makes for every software system and the component
\* view createViewForElement makes for a container.
RECURSIVE StoreViews(_, _)
StoreViews(elements, i) ==
  IF i > Len(elements) THEN <<>>
  ELSE (CASE elements[i].type = "softwareSystem" ->
               <<View("v" \o NatToString(i), "view-" \o elements[i].id, "container",
                      elements[i].id, Undefined, elements[i].name \o " - Containers",
                      "Container view for " \o elements[i].name)>>
          [] elements[i].type = "container" ->
               <<View("v" \o NatToString(i), sanitizeKey(elements[i].name) \o "_Components",
                      "component", Undefined, elements[i].id,
                      elements[i].name \o " components", "Components")>>
          [] OTHER -> <<>>)
       \o StoreViews(elements, i + 1)

\* The view lists: the store's views; and the store's views after a context
\* view whose anchor did not resolve when it was parsed (handleViewLine leaves
\* softwareSystemId undefined) and was loaded.
ViewLists(elements) ==
  {initialWorkspace.views \o StoreViews(elements, 1),
   <<View("v0", "Context", "systemContext", Undefined, Undefined, "Context", "")>>
     \o initialWorkspace.views \o StoreViews(elements, 1)}

InitRoundTrip ==
  /\ pc = "model"
  /\ \E n \in 0..MaxElements :
       \E elements \in ElementLists(n) :
         \E relationships \in RelationshipLists(elements) :
           \E views \in ViewLists(elements) :
             workspace = [name |-> "W", description |-> "D", elements |-> elements,
                          relationships |-> relationships, views |-> views]
  /\ script = <<>>
  /\ dslText = ""
  /\ imported = <<>>
  /\ reimported = <<>>
  /\ synthesized = <<>>
  /\ error = Null
  /\ workspaceVersion = 0
  /\ currentViewId = "landscape"
  /\ selectedElementId = Null
  /\ selectedRelationshipId = Null

\* The DSL editor opens: its text becomes generateDSL(workspace).
OpenEditor ==
  /\ pc = "model"
  /\ dslText' = generateDSL(workspace)
  /\ pc' = "text"
  /\ UNCHANGED <<workspace, script, imported, reimported, synthesized, error, workspaceVersion,
                 currentViewId, selectedElementId, selectedRelationshipId>>

\* parseDSL of the dialog's text.
ParseText ==
  /\ pc = "text"
  /\ \E random \in Randoms : imported' = <<parseDSL(dslText, random)>>
  /\ pc' = "parsed"
  /\ UNCHANGED <<workspace, script, dslText, reimported, synthesized, error, workspaceVersion,
                 currentViewId, selectedElementId, selectedRelationshipId>>

NextRoundTrip == OpenEditor \/ ParseText

SpecRoundTrip == InitRoundTrip /\ [][NextRoundTrip]_vars

(***************************************************************************)
(* Round trip: the claims                                                  *)
(***************************************************************************)

\* The elements of a workspace in the order the model block declares them:
\* depth-first from the roots, each element before its children.
RECURSIVE DeclarationOrderOf(_, _)
DeclarationOrderOf(elements, w) ==
  IF elements = <<>> THEN <<>>
  ELSE <<Head(elements)>>
       \o DeclarationOrderOf(SelectSeq(w.elements, LAMBDA c : c.parentId = Head(elements).id), w)
       \o DeclarationOrderOf(Tail(elements), w)

DeclarationOrder(w) ==
  DeclarationOrderOf(SelectSeq(w.elements, LAMBDA e : ~Truthy(e.parentId)), w)

\* The element of w with the given id (ids are pairwise distinct).
ElementById(w, id) ==
  w.elements[CHOOSE i \in 1..Len(w.elements) : w.elements[i].id = id]

\* Name and kind of an element followed by those of its parent chain.
RECURSIVE ParentChain(_, _)
ParentChain(w, el) ==
  <<<<el.name, el.type>>>>
  \o (IF Truthy(el.parentId) THEN ParentChain(w, ElementById(w, el.parentId)) ELSE <<>>)

\* How many elements of w have the given name, kind and parent chain.
ChainCount(w, chain) ==
  Cardinality({i \in 1..Len(w.elements) : ParentChain(w, w.elements[i]) = chain})

\* The workspace the text was parsed to.
Parsed == imported[1]

\* The index of the element with the given id in a workspace's element list.
IndexOfId(w, id) == CHOOSE i \in 1..Len(w.elements) : w.elements[i].id = id

\* C1: round trip of elements.  After parseDSL(generateDSL(w)) of a workspace w
\* that satisfies the data-model invariants, the parsed workspace has as many
\* elements as w, and for every name, kind and parent chain as many elements
\* with it as w has.
C1_RoundTripElements ==
  pc = "parsed" =>
    /\ Len(Parsed.elements) = Len(workspace.elements)
    /\ \A i \in 1..Len(workspace.elements) :
         LET chain == ParentChain(workspace, workspace.elements[i])
         IN ChainCount(Parsed, chain) = ChainCount(workspace, chain)

\* C2: round trip of relationships.  The parsed workspace has the
\* relationships of w, in the same order and number: the k-th parsed
\* relationship joins the elements parsed from the declarations of the k-th
\* relationship's source and target, with the same description.
C2_RoundTripRelationships ==
  pc = "parsed" =>
    /\ Len(Parsed.relationships) = Len(workspace.relationships)
    /\ \A k \in 1..Len(workspace.relationships) :
         LET order == DeclarationOrder(workspace)
             got == Parsed.relationships[k]
             was == workspace.relationships[k]
         IN /\ order[IndexOfId(Parsed, got.sourceId)].id = was.sourceId
            /\ order[IndexOfId(Parsed, got.targetId)].id = was.targetId
            /\ got.description = was.description

\* generateDSL writes a position-metadata line for the element in some view block.
PositionEmitted(w, el) ==
  \E v \in 1..Len(w.views) : el.type \in validTypes(w.views[v].type)

\* C3: round trip of positions.  Every element for which generateDSL writes a
\* position-metadata line has, in the parsed workspace, the position the line
\* gives.
C3_RoundTripPositions ==
  pc = "parsed" =>
    \A j \in 1..Len(DeclarationOrder(workspace)) :
      LET el == DeclarationOrder(workspace)[j]
      IN PositionEmitted(workspace, el) /\ j <= Len(Parsed.elements)
         => Parsed.elements[j].position = el.position

(***************************************************************************)
(* Hand-written texts: a text is written from a script of statements       *)
(***************************************************************************)

\* An element declaration `ident = kind "name"`, with ` {` when it opens a
\* block; path is its dotted path through the enclosing element blocks.
Decl(ident, path, kind, name, open) ==
  [op |-> "element", ident |-> ident, path |-> path, kind |-> kind, name |-> name,
   open |-> open]

\* `group "name" {`
GroupOpen(name) ==
  [op |-> "group", ident |-> "", path |-> "", kind |-> "group", name |-> name,
   open |-> TRUE]

\* `}`
BlockClose ==
  [op |-> "close", ident |-> "", path |-> "", kind |-> "", name |-> "", open |-> FALSE]

\* `source -> target "description"`
Rel(source, target, description) ==
  [source |-> source, target |-> target, description |-> description]

\* A position given inside a view block: as the comment line
\* `# element identifier x y` or as the block `element identifier {`,
\* `position x y`, `}`.
Mark(form, identifier, x, y) == [form |-> form, identifier |-> identifier, x |-> x, y |-> y]

\* A view block: `type anchor "key" "description" {` (a landscape view has
\* no anchor), `include *`, its marks, `autoLayout lr`, `}`.
ViewBlock(type, anchor, key, marks) ==
  [type |-> type, anchor |-> anchor, key |-> key, marks |-> marks]

StatementLine(s) ==
  CASE s.op = "element" ->
         s.ident \o " = " \o s.kind \o " \"" \o s.name \o "\"" \o (IF s.open THEN " {" ELSE "")
    [] s.op = "group" -> "group \"" \o s.name \o "\" {"
    [] OTHER -> "}"

RelLine(r) == r.source \o " -> " \o r.target \o " \"" \o r.description \o "\""

MarkLines(m) ==
  IF m.form = "comment"
  THEN <<"# element " \o m.identifier \o " " \o NumberToString(m.x) \o " " \o NumberToString(m.y)>>
  ELSE <<"element " \o m.identifier \o " {",
         "position " \o NumberToString(m.x) \o " " \o NumberToString(m.y),
         "}">>

RECURSIVE AllMarkLines(_)
AllMarkLines(marks) ==
  IF marks = <<>> THEN <<>> ELSE MarkLines(Head(marks)) \o AllMarkLines(Tail(marks))

ViewBlockLines(v) ==
  <<(IF v.type = "systemLandscape" THEN "systemLandscape"
     ELSE v.type \o " " \o v.anchor)
    \o " \"" \o v.key \o "\" \"View " \o v.key \o "\" {",
    "include *">>
  \o AllMarkLines(v.marks)
  \o <<"autoLayout lr", "}">>

RECURSIVE AllViewBlockLines(_)
AllViewBlockLines(views) ==
  IF views = <<>> THEN <<>>
  ELSE ViewBlockLines(Head(views)) \o AllViewBlockLines(Tail(views))

\* The lines of a script: the relationship lines stand before the
\* declarations when relsFirst, after them otherwise.
ScriptLines(s) ==
  LET decls == [i \in 1..Len(s.model) |-> StatementLine(s.model[i])]
      rels == [i \in 1..Len(s.rels) |-> RelLine(s.rels[i])]
  IN <<"workspace \"W\" \"D\" {", "model {">>
     \o (IF s.relsFirst THEN rels \o decls ELSE decls \o rels)
     \o <<"}", "views {">>
     \o AllViewBlockLines(s.views)
     \o <<"}", "}">>

Render(s) == Join(ScriptLines(s), "\n")

Script(model, rels, relsFirst, views) ==
  [model |-> model, rels |-> rels, relsFirst |-> relsFirst, views |-> views]

\* Model blocks.  A system with a container in its block:
SystemWithContainer ==
  <<Decl("a", "a", "softwareSystem", "A", TRUE),
    Decl("w", "a.w", "container", "W", FALSE),
    BlockClose>>

\* A system and a person, side by side:
SystemAndPerson ==
  <<Decl("a", "a", "softwareSystem", "A", FALSE), Decl("b", "b", "person", "B", FALSE)>>

\* A system inside a group, a person and a deployment node:
GroupedSystem ==
  <<GroupOpen("G"), Decl("a", "a", "softwareSystem", "A", FALSE), BlockClose,
    Decl("b", "b", "person", "B", FALSE), Decl("d", "d", "deploymentNode", "Dn", FALSE)>>

\* Two systems, the first with a container, a person and a deployment node:
TwoSystems ==
  SystemWithContainer
  \o <<Decl("b", "b", "softwareSystem", "B", FALSE), Decl("p", "p", "person", "P", FALSE),
       Decl("d", "d", "deploymentNode", "Dn", FALSE)>>

\* The declaration statements of a model block (those that declare an element).
Declarations(model) == SelectSeq(model, LAMBDA s : s.op # "close")

\* The identifiers the element declarations of a model block declare: each
\* element's own identifier and its dotted path.
DeclaredIdentifiers(model) ==
  {model[i].ident : i \in {j \in 1..Len(model) : model[j].op = "element"}}
  \cup {model[i].path : i \in {j \in 1..Len(model) : model[j].op = "element"}}

\* The index, among the declared elements, of the element an identifier
\* names: the last declaration of it.
DeclarationIndex(model, identifier) ==
  LET decls == Declarations(model)
      hits == {i \in 1..Len(decls) :
                 decls[i].op = "element"
                 /\ (decls[i].ident = identifier \/ decls[i].path = identifier)}
  IN CHOOSE i \in hits : \A j \in hits : j <= i

(***************************************************************************)
(* Loading a text: the import dialog and the DSL editor                    *)
(***************************************************************************)

\* loadWorkspace of the store: the workspace it holds afterwards.
\* workspaceToLoad.views[0]?.id || null
firstViewId(ws) ==
  IF Len(ws.views) > 0 /\ Truthy(ws.views[1].id) THEN ws.views[1].id ELSE Null

loadWorkspace(ws) ==
  [ws EXCEPT !.views = IF Len(ws.views) > 0 THEN ws.views ELSE initialWorkspace.views]

\* previousElementPositions of the store: nothing ever writes to it.
previousElementPositions == [k \in {} |-> [x |-> 0, y |-> 0]]

\* `${element.name}|${element.type}`
PositionKey(element) == element.name \o "|" \o element.type

\* handleApply, lines 59-73: an imported element whose name and kind an
\* element of the current workspace has takes that element's position.
restorePositions(importedWorkspace, current) ==
  LET els == current.elements
      last(k) == CHOOSE i \in 1..Len(els) :
                   /\ PositionKey(els[i]) = k
                   /\ \A j \in 1..Len(els) : PositionKey(els[j]) = k => j <= i
      currentPositionMap ==
        [k \in {PositionKey(els[i]) : i \in 1..Len(els)} |-> els[last(k)].position]
      restored(element) ==
        LET key == PositionKey(element)
        IN IF key \in DOMAIN previousElementPositions
           THEN [element EXCEPT !.position = previousElementPositions[key]]
           ELSE IF key \in DOMAIN currentPositionMap
           THEN [element EXCEPT !.position = currentPositionMap[key]]
           ELSE element
  IN [importedWorkspace EXCEPT !.elements =
        [i \in 1..Len(importedWorkspace.elements) |-> restored(importedWorkspace.elements[i])]]

\* What a text lacks or has too much of.
Damages == {"none", "unclosed", "overclosed", "opened"}

Damaged(text, damage) ==
  CASE damage = "unclosed" -> Slice(text, 1, Len(text) - 2)
    [] damage = "overclosed" -> text \o "\n}"
    [] damage = "opened" -> text \o "\n{"
    [] OTHER -> text

LoadScripts ==
  {Script(model, rels, FALSE, views) :
     model \in {SystemWithContainer, SystemAndPerson},
     rels \in {<<>>, <<Rel("a", "a", "Calls itself")>>},
     views \in {<<>>, <<ViewBlock("systemLandscape", "", "L1", <<>>)>>}}

\* A whole workspace written on one line.
ScenarioText == "workspace \"W\" \"D\" { model { u = person \"User\" \"\" } } "

\* The texts typed into a dialog.
LoadTexts ==
  {Damaged(Render(s), d) : s \in LoadScripts, d \in Damages}
  \cup {"", "  ", "model {\n}", ScenarioText}

\* The workspaces of the store when a dialog opens: the initial one, and one
\* with a software system (with the container view addElement makes for it).
LoadWorkspaces ==
  LET system == Element("ab120000-0000-4000-8000-000000000011", "softwareSystem", "A",
                        Undefined, [x |-> 500, y |-> 300])
  IN {initialWorkspace,
      [initialWorkspace EXCEPT !.elements = <<system>>,
                               !.views = @ \o StoreViews(<<system>>, 1)]}

InitLoad ==
  /\ pc = "model"
  /\ workspace \in LoadWorkspaces
  /\ script = <<>>
  /\ dslText = ""
  /\ imported = <<>>
  /\ reimported = <<>>
  /\ synthesized = <<>>
  /\ error = Null
  /\ workspaceVersion = 0
  /\ currentViewId = "landscape"
  /\ selectedElementId = Null
  /\ selectedRelationshipId = Null

\* The import dialog opens: its text and its error are reset.
OpenImport ==
  /\ pc = "model"
  /\ pc' = "import"
  /\ dslText' = ""
  /\ error' = Null
  /\ UNCHANGED <<workspace, script, imported, reimported, synthesized, workspaceVersion,
                 currentViewId, selectedElementId, selectedRelationshipId>>

\* The user replaces the text of the open dialog.
EditText ==
  /\ pc \in {"text", "import"}
  /\ dslText' \in LoadTexts
  /\ UNCHANGED <<pc, workspace, script, imported, reimported, synthesized, error, workspaceVersion,
                 currentViewId, selectedElementId, selectedRelationshipId>>

\* DSLImportModal.handleImportFromText with parseAndValidate, and onImport
\* (the store's loadWorkspace).
ImportFromText ==
  /\ pc = "import"
  /\ IF Trim(dslText) = ""
     THEN /\ error' = "Please enter DSL code"
          /\ UNCHANGED <<pc, workspace, imported, workspaceVersion,
                 currentViewId, selectedElementId, selectedRelationshipId>>
     ELSE IF validateDSL(dslText) # Null
     THEN /\ error' = validateDSL(dslText)
          /\ UNCHANGED <<pc, workspace, imported, workspaceVersion,
                 currentViewId, selectedElementId, selectedRelationshipId>>
     ELSE /\ \E random \in Randoms : imported' = <<parseDSL(dslText, random)>>
          /\ workspace' = loadWorkspace(imported'[1])
          /\ workspaceVersion' = workspaceVersion + 1
          /\ currentViewId' = firstViewId(workspace')
          /\ selectedElementId' = Null
          /\ selectedRelationshipId' = Null
          /\ error' = Null
          /\ pc' = "loaded"
  /\ UNCHANGED <<script, dslText, reimported, synthesized>>

\* DSLEditorModal.handleApply, and onApply (the store's loadWorkspace).
Apply ==
  /\ pc = "text"
  /\ IF Trim(dslText) = ""
     THEN /\ error' = "DSL cannot be empty"
          /\ UNCHANGED <<pc, workspace, imported, workspaceVersion,
                 currentViewId, selectedElementId, selectedRelationshipId>>
     ELSE /\ \E random \in Randoms :
               imported' = <<restorePositions(parseDSL(dslText, random), workspace)>>
          /\ workspace' = loadWorkspace(imported'[1])
          /\ workspaceVersion' = workspaceVersion + 1
          /\ currentViewId' = firstViewId(workspace')
          /\ selectedElementId' = Null
          /\ selectedRelationshipId' = Null
          /\ error' = Null
          /\ pc' = "loaded"
  /\ UNCHANGED <<script, dslText, reimported, synthesized>>

NextLoad == OpenEditor \/ OpenImport \/ EditText \/ ImportFromText \/ Apply

SpecLoad == InitLoad /\ [][NextLoad]_vars

\* C4: the brace-balance gate.  A text whose counts of '{' and '}' differ is
\* rejected on every path that loads parsed text: whenever a dialog has parsed
\* its text and loaded the result into the store, the text's braces balance.
C4_BraceBalanceGate ==
  pc = "loaded" => CountChar(dslText, "{") = CountChar(dslText, "}")

\* The lines of a text that declare a person with the given name.
PersonDeclarations(text, name) ==
  SelectSeq(Split(text, "\n"),
            LAMBDA line : /\ elementMatch(Trim(line)).ok
                          /\ elementMatch(Trim(line)).groups[2] = "person"
                          /\ elementMatch(Trim(line)).groups[3] = name)

\* The lines of a text that open a landscape view.
LandscapeEntries(text) ==
  SelectSeq(Split(text, "\n"), LAMBDA line : landscapeMatch(Trim(line)).ok)

\* The workspace is the one the scenario describes.
ScenarioWorkspace(w) ==
  /\ w.name = "W"
  /\ Len(w.elements) = 1
  /\ \A i \in 1..Len(w.elements) : w.elements[i].type = "person" /\ w.elements[i].name = "User"
  /\ w.relationships = <<>>
  /\ \E v \in 1..Len(w.views) : w.views[v].type = "systemLandscape" /\ w.views[v].id = "landscape"

\* The text is the one the scenario describes.
ScenarioDocument(text) ==
  /\ Len(PersonDeclarations(text, "User")) = 1
  /\ Len(LandscapeEntries(text)) = 1

\* C14: the concrete scenario.  The text  workspace "W" "D" { model { u =
\* person "User" "" } }  on one line, once parsed and loaded, is a workspace
\* named W with exactly one element, a person named User, no relationship and
\* the synthesized landscape view; the text generated from that workspace has
\* exactly one person declaration for User and exactly one systemLandscape
\* entry.
C14_ConcreteScenario ==
  pc = "loaded" /\ dslText = ScenarioText =>
    /\ ScenarioWorkspace(Parsed)
    /\ ScenarioDocument(generateDSL(Parsed))

(***************************************************************************)
(* Parsing a hand-written text                                             *)
(***************************************************************************)

\* The elements of a sequence.
Range(seq) == {seq[i] : i \in 1..Len(seq)}

\* The sequences of at most n elements of S, none of them twice.
RECURSIVE Arrangements(_, _)
Arrangements(S, n) ==
  IF n = 0 THEN {<<>>}
  ELSE LET shorter == Arrangements(S, n - 1)
       IN shorter
          \cup {Append(p[1], p[2]) :
                  p \in {q \in shorter \X S : Len(q[1]) = n - 1 /\ q[2] \notin Range(q[1])}}

\* The state before a text is written from a script.
InitScript(scripts) ==
  /\ pc = "script"
  /\ workspace = initialWorkspace
  /\ script \in scripts
  /\ dslText = ""
  /\ imported = <<>>
  /\ reimported = <<>>
  /\ synthesized = <<>>
  /\ error = Null
  /\ workspaceVersion = 0
  /\ currentViewId = "landscape"
  /\ selectedElementId = Null
  /\ selectedRelationshipId = Null

\* The text of the script is written into the dialog.
WriteText ==
  /\ pc = "script"
  /\ dslText' = Render(script)
  /\ pc' = "text"
  /\ UNCHANGED <<workspace, script, imported, reimported, synthesized, error, workspaceVersion,
                 currentViewId, selectedElementId, selectedRelationshipId>>

\* The relationship lines are moved to the other side of the declarations.
MoveRelationships ==
  /\ pc = "parsed"
  /\ script' = [script EXCEPT !.relsFirst = ~@]
  /\ dslText' = Render(script')
  /\ pc' = "moved"
  /\ UNCHANGED <<workspace, imported, reimported, synthesized, error, workspaceVersion,
                 currentViewId, selectedElementId, selectedRelationshipId>>

\* parseDSL of the dialog's text, a second time.
ParseAgain ==
  /\ pc \in {"parsed", "moved"}
  /\ \E random \in Randoms : reimported' = <<parseDSL(dslText, random)>>
  /\ pc' = (IF pc = "parsed" THEN "reparsed" ELSE "moved-parsed")
  /\ UNCHANGED <<workspace, script, dslText, imported, synthesized, error, workspaceVersion,
                 currentViewId, selectedElementId, selectedRelationshipId>>

\* The workspace the text was parsed to the second time.
Reparsed == reimported[1]

(***************************************************************************)
(* Relationship lines and their resolution                                 *)
(***************************************************************************)

MaxRelLines == 3

\* Relationship lines: "x" and "y" are declared by no model block, "a.w" only
\* by a block with a container w inside the system a, "b" by some blocks.
RelCandidates ==
  {Rel("x", "a", "Ghost"), Rel("a.w", "a", "Uses"), Rel("a", "y", "Lost"),
   Rel("b", "a", "Calls")}

ResolveScripts ==
  {Script(model, rels, relsFirst, <<>>) :
     model \in {SystemWithContainer, SystemAndPerson, GroupedSystem, TwoSystems},
     rels \in Arrangements(RelCandidates, MaxRelLines),
     relsFirst \in BOOLEAN}

InitResolve == InitScript(ResolveScripts)

NextResolve == WriteText \/ ParseText \/ MoveRelationships \/ ParseAgain

SpecResolve == InitResolve /\ [][NextResolve]_vars

\* The relationship lines of a script whose two identifiers are declared by
\* the script's model block.
ResolvableLines(s) ==
  SelectSeq(s.rels, LAMBDA r : /\ r.source \in DeclaredIdentifiers(s.model)
                               /\ r.target \in DeclaredIdentifiers(s.model))

\* C5: unresolvable references are dropped, not fatal.  After parseDSL of a
\* text, a workspace has been produced without an error; its relationships are
\* exactly the relationship lines whose two identifiers the text declares, in
\* the order of the lines, each joining the elements its identifiers name; a
\* line naming an undeclared identifier has produced no relationship.
C5_UnresolvableDropped ==
  pc = "parsed" =>
    /\ error = Null
    /\ Len(Parsed.relationships) = Len(ResolvableLines(script))
    /\ \A k \in 1..Len(ResolvableLines(script)) :
         LET was == ResolvableLines(script)[k]
             got == Parsed.relationships[k]
         IN /\ got.description = was.description
            /\ got.sourceId = Parsed.elements[DeclarationIndex(script.model, was.source)].id
            /\ got.targetId = Parsed.elements[DeclarationIndex(script.model, was.target)].id

\* A text with a line that resolves and a line that does not has been parsed.
C5_Witness ==
  /\ pc = "parsed"
  /\ Rel("x", "a", "Ghost") \in Range(script.rels)
  /\ Rel("b", "a", "Calls") \in Range(script.rels)
  /\ Len(Parsed.relationships) >= 1
  /\ Len(Parsed.relationships) < Len(script.rels)

\* The relationships of a workspace as pairs of elements: the positions of
\* source and target in the element list, and the description.
RelationshipPairs(w) ==
  [k \in 1..Len(w.relationships) |->
     <<{i \in 1..Len(w.elements) : w.elements[i].id = w.relationships[k].sourceId},
       {i \in 1..Len(w.elements) : w.elements[i].id = w.relationships[k].targetId},
       w.relationships[k].description>>]

\* C6: deferred resolution.  A text whose relationship lines stand before the
\* declarations and the text with the same lines after them parse to the same
\* pairs of elements; and `a.w -> a "Uses"` outside the block of the system a
\* with the container w produces exactly one relationship, from the container
\* to the system.
C6_DeferredResolution ==
  /\ pc = "moved-parsed" => RelationshipPairs(Reparsed) = RelationshipPairs(Parsed)
  /\ (/\ pc \in {"parsed", "moved-parsed"}
      /\ script.model = SystemWithContainer
      /\ script.rels = <<Rel("a.w", "a", "Uses")>>)
     => /\ Len(Parsed.relationships) = 1
        /\ Parsed.elements[2].type = "container"
        /\ Parsed.elements[1].type = "softwareSystem"
        /\ Parsed.relationships[1].sourceId = Parsed.elements[2].id
        /\ Parsed.relationships[1].targetId = Parsed.elements[1].id

\* The scenario's text has been parsed with its line on either side.
C6_Witness ==
  /\ pc = "moved-parsed"
  /\ script.model = SystemWithContainer
  /\ script.rels = <<Rel("a.w", "a", "Uses")>>
  /\ Len(Parsed.relationships) = 1
  /\ Len(Reparsed.relationships) = 1

(***************************************************************************)
(* The layout of the parsed elements                                       *)
(***************************************************************************)

MaxFlat == 5

MaxMarks == 2

\* n declarations side by side: e1, e2, ...
FlatModel(n) ==
  [i \in 1..n |->
     Decl("e" \o NatToString(i), "e" \o NatToString(i),
          IF i % 2 = 1 THEN "softwareSystem" ELSE "person", "E" \o NatToString(i), FALSE)]

\* The same declarations with a group around all but the first.
GroupedModel(n) ==
  <<FlatModel(n)[1], GroupOpen("G")>> \o SubSeq(FlatModel(n), 2, n) \o <<BlockClose>>

\* Position metadata: for e2 as a comment line, for e3 as an element block,
\* and a comment line naming an identifier of the form the parser gives a group.
LayoutMarks ==
  {Mark("comment", "e2", 300, 0 - 20), Mark("block", "e3", 15, 25),
   Mark("comment", "group_ab12", 7, 9)}

LayoutScripts ==
  {Script(model, <<>>, FALSE, <<ViewBlock("systemLandscape", "", "L1", marks)>>) :
     model \in {FlatModel(n) : n \in 0..MaxFlat} \cup {GroupedModel(n) : n \in 1..MaxFlat},
     marks \in Arrangements(LayoutMarks, MaxMarks)}

InitLayout == InitScript(LayoutScripts)

NextLayout == WriteText \/ ParseText \/ ParseAgain

SpecLayout == InitLayout /\ [][NextLayout]_vars

\* The marks of a script's view blocks.
ScriptMarks(s) == UNION {Range(s.views[v].marks) : v \in 1..Len(s.views)}

\* A mark names an identifier of the form `group_....`.
NamesGroup(s) == \E m \in ScriptMarks(s) : StartsWith(m.identifier, "group_")

\* No position metadata of the script is for the declaration.
Unmarked(s, decl) ==
  IF decl.op = "group" THEN ~NamesGroup(s)
  ELSE \A m \in ScriptMarks(s) : m.identifier \notin {decl.ident, decl.path}

\* Every parsed element has a position, and the element declared i-th
\* (counting from zero) that has no position metadata stands at
\* x = 40 + (i mod 4) * (220 + 60), y = 40 + (i div 4) * (140 + 80).
OnFallbackGrid ==
  /\ Len(Parsed.elements) = Len(Declarations(script.model))
  /\ \A j \in 1..Len(Parsed.elements) :
       /\ Parsed.elements[j].position.x \in Int
       /\ Parsed.elements[j].position.y \in Int
       /\ Unmarked(script, Declarations(script.model)[j])
          => Parsed.elements[j].position =
               [x |-> 40 + ((j - 1) % 4) * (220 + 60),
                y |-> 40 + ((j - 1) \div 4) * (140 + 80)]

\* The two parses of the text give every element the same position.
SamePositions ==
  /\ Len(Reparsed.elements) = Len(Parsed.elements)
  /\ \A j \in 1..Len(Parsed.elements) :
       Reparsed.elements[j].position = Parsed.elements[j].position

MaxViewBlocks == 2

\* View blocks: two landscape views, a container view and a context view of
\* the system a, a container view of b, and a container view whose anchor
\* no model block declares.
ViewCandidates ==
  {ViewBlock("systemLandscape", "", "L1", <<>>),
   ViewBlock("systemLandscape", "", "L2", <<>>),
   ViewBlock("container", "a", "Ca", <<>>),
   ViewBlock("systemContext", "a", "Xa", <<>>),
   ViewBlock("container", "b", "Cb", <<>>),
   ViewBlock("container", "zz", "Cz", <<>>)}

ViewScripts ==
  {Script(model, <<>>, FALSE, views) :
     model \in {<<>>, SystemWithContainer, SystemAndPerson, GroupedSystem, TwoSystems},
     views \in Arrangements(ViewCandidates, MaxViewBlocks)}

InitViews == InitScript(ViewScripts)

\* The synthesis of views (the auto-generation of resolveRelationships and
\* the landscape step of parse) run on the parsed workspace.
Resynthesize ==
  /\ pc = "parsed"
  /\ \E random \in Randoms :
       synthesized' =
         <<ensureLandscape(
             autoGenerateViews([NewContext(random) EXCEPT
                                  !.elements = Parsed.elements,
                                  !.views = Parsed.views]).views)>>
  /\ pc' = "resynthesized"
  /\ UNCHANGED <<workspace, script, dslText, imported, reimported, error, workspaceVersion,
                 currentViewId, selectedElementId, selectedRelationshipId>>

NextViews == WriteText \/ ParseText \/ Resynthesize

SpecViews == InitViews /\ [][NextViews]_vars

\* The number of views of a kind in a list of views or of view blocks.
CountKind(views, kind) == Cardinality({v \in 1..Len(views) : views[v].type = kind})

C9_ContainerViews ==
  pc = "parsed" =>
    \A i \in 1..Len(Parsed.elements) :
      Parsed.elements[i].type = "softwareSystem"
      => \E v \in 1..Len(Parsed.views) :
           /\ Parsed.views[v].type = "container"
           /\ Parsed.views[v].softwareSystemId = Parsed.elements[i].id

\* Two systems have been parsed: the container view of a was declared, the one
\* of b synthesized.
C9_Witness ==
  /\ pc = "parsed"
  /\ script.model = TwoSystems
  /\ script.views = <<ViewBlock("container", "a", "Ca", <<>>)>>
  /\ \E v \in 1..Len(Parsed.views) :
       /\ Parsed.views[v].key = "Ca"
       /\ Parsed.views[v].softwareSystemId = Parsed.elements[1].id
  /\ \E v \in 1..Len(Parsed.views) :
       /\ Parsed.views[v].key = "view-" \o Parsed.elements[3].id
       /\ Parsed.views[v].softwareSystemId = Parsed.elements[3].id
  /\ CountKind(Parsed.views, "container") = 2

\* C10: view synthesis is idempotent.  The synthesis of views applied to the
\* views parseDSL produced adds no view: the views stay as they are.
C10_SynthesisIdempotent ==
  pc = "resynthesized" => synthesized[1] = Parsed.views

\* The synthesis has run again on a workspace with systems and a deployment
\* node, whose views the first synthesis had added.
C10_Witness ==
  /\ pc = "resynthesized"
  /\ script.model = TwoSystems
  /\ script.views = <<>>
  /\ CountKind(Parsed.views, "systemLandscape") = 1
  /\ CountKind(Parsed.views, "container") = 2
  /\ CountKind(Parsed.views, "deployment") = 1
  /\ Len(synthesized[1]) = 4

(***************************************************************************)
(* The workspace store (store/index.ts)                                    *)
(***************************************************************************)

UpperLetters == "ABCDEFGHIJKLMNOPQRSTUVWXYZ"

LowerLetters == "abcdefghijklmnopqrstuvwxyz"

\* The index of the character c in the text s, 0 when it is not in it.
IndexIn(s, c) ==
  IF \E i \in 1..Len(s) : Char(s, i) = c
  THEN CHOOSE i \in 1..Len(s) : Char(s, i) = c
  ELSE 0

\* String.prototype.toLowerCase, character by character.
toLowerCase(s) ==
  Join([k \in 1..Len(s) |->
          IF IndexIn(UpperLetters, Char(s, k)) > 0
          THEN Char(LowerLetters, IndexIn(UpperLetters, Char(s, k)))
          ELSE Char(s, k)], "")

\* String.prototype.toUpperCase of one character.
toUpperCase(c) ==
  IF IndexIn(LowerLetters, c) > 0 THEN Char(UpperLetters, IndexIn(LowerLetters, c)) ELSE c

\* transliterate: the text in lower case; the Cyrillic letters of its table
\* are outside the alphabet of the names used here.
transliterate(text) == toLowerCase(text)

\* text.replace(/[^a-zA-Z0-9]/g, ' ')
NonAlnumToSpace(s) ==
  Join([k \in 1..Len(s) |-> IF IsAlnum(Char(s, k)) THEN Char(s, k) ELSE " "], "")

\* The index after the longest run of characters other than white space from i.
RECURSIVE WordEnd(_, _)
WordEnd(s, i) ==
  IF i <= Len(s) /\ ~IsSpace(Char(s, i)) THEN WordEnd(s, i + 1) ELSE i

\* clean.split(/\s+/).map(capitalize).join('') from index i of a trimmed text.
RECURSIVE CapitalizedWords(_, _)
CapitalizedWords(clean, i) ==
  IF i > Len(clean) THEN ""
  ELSE toUpperCase(Char(clean, i))
       \o toLowerCase(Slice(clean, i + 1, WordEnd(clean, i) - 1))
       \o CapitalizedWords(clean, SpacesEnd(clean, WordEnd(clean, i)))

slugifyClean(clean) == IF clean = "" THEN "" ELSE CapitalizedWords(clean, 1)

slugify(text) == slugifyClean(Trim(NonAlnumToSpace(transliterate(text))))

\* C4_LABELS
C4_LABELS(type) ==
  CASE type = "person" -> "Person"
    [] type = "softwareSystem" -> "Software System"
    [] type = "container" -> "Container"
    [] type = "component" -> "Component"
    [] type = "deploymentNode" -> "Deployment Node"
    [] type = "infrastructureNode" -> "Infrastructure Node"
    [] type = "group" -> "Group"

\* label.replace(/\s+/g, '')
RemoveSpaces(s) ==
  Join([k \in 1..Len(s) |-> IF IsSpace(Char(s, k)) THEN "" ELSE Char(s, k)], "")

\* The ids of the elements of a list.
IdsOf(list) == {list[i].id : i \in 1..Len(list)}

\* The while loop of renameElement and renameView: the first of baseId,
\* baseId_1, baseId_2, ... (from the given suffix) that no other has.
RECURSIVE freeId(_, _, _)
freeId(baseId, otherIds, suffix) ==
  IF suffix = 0
  THEN IF baseId \in otherIds THEN freeId(baseId, otherIds, 1) ELSE baseId
  ELSE IF (baseId \o "_" \o NatToString(suffix)) \in otherIds
       THEN freeId(baseId, otherIds, suffix + 1)
       ELSE baseId \o "_" \o NatToString(suffix)

\* addElement: the workspace after it, for the uuidv4() outcomes id (the
\* element's) and viewId (its container view's).
addElement(ws, id, viewId, type, position, parentId) ==
  [ws EXCEPT
     !.elements = Append(@, Element(id, type, "New " \o C4_LABELS(type), parentId, position)),
     !.views = IF type = "softwareSystem"
               THEN Append(@, View(viewId, "view-" \o id, "container", id, Undefined,
                                   "New " \o C4_LABELS(type) \o " - Containers",
                                   "Container view for " \o "New " \o C4_LABELS(type)))
               ELSE @]

\* The id renameElement gives the element.
renamedId(ws, element, newName) ==
  freeId(slugify(newName) \o "_" \o RemoveSpaces(C4_LABELS(element.type)),
         IdsOf(ws.elements) \ {element.id}, 0)

\* A rename that gives the element its new id and name and leaves every
\* reference to it as it is.
renameLeavingReferences(ws, oldId, newId, newName) ==
  [ws EXCEPT
     !.elements = [i \in 1..Len(@) |->
                     IF @[i].id = oldId THEN [@[i] EXCEPT !.id = newId, !.name = newName]
                     ELSE @[i]]]

\* renameElement's state update, for the new id it has computed.
renameTo(ws, oldId, newId, newName) ==
  [ws EXCEPT
     !.elements = [i \in 1..Len(@) |->
                     IF @[i].id = oldId THEN [@[i] EXCEPT !.id = newId, !.name = newName]
                     ELSE IF @[i].parentId = oldId THEN [@[i] EXCEPT !.parentId = newId]
                     ELSE @[i]],
     !.relationships = [i \in 1..Len(@) |->
                          [@[i] EXCEPT
                             !.sourceId = IF @ = oldId THEN newId ELSE @,
                             !.targetId = IF @ = oldId THEN newId ELSE @]],
     !.views = [i \in 1..Len(@) |->
                  [@[i] EXCEPT
                     !.softwareSystemId = IF @ = oldId THEN newId ELSE @,
                     !.containerId = IF @ = oldId THEN newId ELSE @]]]

renameElement(ws, id, newName) ==
  IF id \notin IdsOf(ws.elements) THEN ws
  ELSE renameTo(ws, id, renamedId(ws, ElementById(ws, id), newName), newName)

\* { ...record, ...updates }
Spread(record, updates) ==
  [f \in (DOMAIN record) \cup (DOMAIN updates) |->
     IF f \in DOMAIN updates THEN updates[f] ELSE record[f]]

updateElement(ws, id, updates) ==
  [ws EXCEPT !.elements =
     [i \in 1..Len(@) |-> IF @[i].id = id THEN Spread(@[i], updates) ELSE @[i]]]

\* A deletion that takes the element out of the list and leaves the
\* relationships and the views as they are.
deleteElementOnly(ws, id) ==
  [ws EXCEPT !.elements = SelectSeq(@, LAMBDA el : el.id # id)]

deleteElement(ws, id) ==
  [ws EXCEPT
     !.elements = SelectSeq(@, LAMBDA el : el.id # id),
     !.relationships = SelectSeq(@, LAMBDA rel : rel.sourceId # id /\ rel.targetId # id),
     !.views = SelectSeq(@, LAMBDA v : ~(v.softwareSystemId = id \/ v.containerId = id))]

addRelationship(ws, id, sourceId, targetId, description) ==
  [ws EXCEPT !.relationships = Append(@, Relationship(id, sourceId, targetId, description))]

updateRelationship(ws, id, updates) ==
  [ws EXCEPT !.relationships =
     [i \in 1..Len(@) |-> IF @[i].id = id THEN Spread(@[i], updates) ELSE @[i]]]

deleteRelationship(ws, id) ==
  [ws EXCEPT !.relationships = SelectSeq(@, LAMBDA rel : rel.id # id)]

\* renameView's state update for a view that is not the landscape view.
renameViewTo(ws, oldId, newId, newName) ==
  [ws EXCEPT !.views =
     [i \in 1..Len(@) |->
        IF @[i].id = oldId THEN [@[i] EXCEPT !.id = newId, !.name = newName, !.key = newId]
        ELSE @[i]]]

renameView(ws, id, newName) ==
  IF id \notin IdsOf(ws.views) THEN ws
  ELSE IF id = "landscape"
  THEN [ws EXCEPT !.views =
          [i \in 1..Len(@) |-> IF @[i].id = id THEN [@[i] EXCEPT !.name = newName] ELSE @[i]]]
  ELSE renameViewTo(ws, id,
                    freeId(IF slugify(newName) # "" THEN slugify(newName) ELSE "view",
                           IdsOf(ws.views) \ {id}, 0),
                    newName)

addView(ws, id, view) == [ws EXCEPT !.views = Append(@, [view EXCEPT !.id = id])]

updateView(ws, id, updates) ==
  [ws EXCEPT !.views =
     [i \in 1..Len(@) |-> IF @[i].id = id THEN Spread(@[i], updates) ELSE @[i]]]

deleteView(ws, id) == [ws EXCEPT !.views = SelectSeq(@, LAMBDA v : v.id # id)]

clearWorkspace == initialWorkspace

\* deleteElement: the ids of the views anchored on the element.
viewIdsToRemove(ws, id) ==
  {ws.views[i].id :
     i \in {j \in 1..Len(ws.views) :
              ws.views[j].softwareSystemId = id \/ ws.views[j].containerId = id}}

\* deleteElement: nextCurrentViewId.
nextCurrentViewId(ws, current, id) ==
  IF current # Null /\ Truthy(current) /\ current \in viewIdsToRemove(ws, id)
  THEN IF firstViewId(deleteElement(ws, id)) # Null
       THEN firstViewId(deleteElement(ws, id))
       ELSE "landscape"
  ELSE current

\* deleteView: the current view after it; views[0] is read from the state
\* before the deletion.
currentViewAfterDeleteView(ws, current, id) ==
  IF current = id THEN firstViewId(ws) ELSE current

\* renameView: the current view after it.
currentViewAfterRenameView(ws, current, id, newName) ==
  IF id \in IdsOf(ws.views) /\ id # "landscape" /\ current = id
  THEN freeId(IF slugify(newName) # "" THEN slugify(newName) ELSE "view",
              IdsOf(ws.views) \ {id}, 0)
  ELSE current

\* renameElement: the selected element after it.
selectedAfterRename(ws, selected, id, newName) ==
  IF id \in IdsOf(ws.elements) /\ selected = id
  THEN renamedId(ws, ElementById(ws, id), newName)
  ELSE selected

(***************************************************************************)
(* validation.ts: elements, relationships, workspaces                      *)
(***************************************************************************)

\* !value || value.trim() === ''
IsBlank(value) == ~Truthy(value) \/ Trim(value) = ""

isValidElementType(type) ==
  type \in {"person", "softwareSystem", "container", "component",
            "deploymentNode", "infrastructureNode"}

\* validateElement: Null when it returns, the message of the ValidationError
\* it throws otherwise.  Positions here always have numeric coordinates.
validateElement(element) ==
  IF IsBlank(element.id) THEN "Element ID is required"
  ELSE IF IsBlank(element.name) THEN "Element name is required"
  ELSE IF ~isValidElementType(element.type)
  THEN "Invalid element type: " \o Template(element.type)
  ELSE Null

validateRelationship(relationship, elements) ==
  IF IsBlank(relationship.id) THEN "Relationship ID is required"
  ELSE IF IsBlank(relationship.description) THEN "Relationship description is required"
  ELSE IF relationship.sourceId \notin IdsOf(elements)
  THEN "Source element not found: " \o Template(relationship.sourceId)
  ELSE IF relationship.targetId \notin IdsOf(elements)
  THEN "Target element not found: " \o Template(relationship.targetId)
  ELSE IF relationship.sourceId = relationship.targetId
  THEN "Relationship cannot connect an element to itself"
  ELSE Null

\* The first message of a sequence of validation outcomes, Null when none.
RECURSIVE FirstError(_)
FirstError(outcomes) ==
  IF outcomes = <<>> THEN Null
  ELSE IF Head(outcomes) # Null THEN Head(outcomes)
  ELSE FirstError(Tail(outcomes))

\* The orphan check of validateWorkspace for one element.
validateParent(element, elements) ==
  IF Truthy(element.parentId) /\ element.parentId \notin IdsOf(elements)
  THEN "Element " \o element.id \o " has invalid parent: " \o element.parentId
  ELSE Null

validateWorkspace(ws) ==
  IF IsBlank(ws.name) THEN "Workspace name is required"
  ELSE FirstError(
         [i \in 1..Len(ws.elements) |-> validateElement(ws.elements[i])]
         \o [i \in 1..Len(ws.relationships) |->
               validateRelationship(ws.relationships[i], ws.elements)]
         \o [i \in 1..Len(ws.elements) |-> validateParent(ws.elements[i], ws.elements)])

(***************************************************************************)
(* Editing the workspace in the store                                      *)
(***************************************************************************)

MaxStoreElements == 2

MaxStoreViews == 2

\* How many updates of the store a run makes.
MaxVersion == 4

\* The kinds of element the toolbar adds.
StoreKinds == {"person", "softwareSystem", "container", "group"}

\* The names typed when renaming.
NewNames == {"2fa"}

\* The field values typed in the properties panel.
ElementUpdates == {[description |-> "Edited"]}

RelationshipUpdates == {[description |-> "Calls"]}

ViewUpdates == {[description |-> "Edited"]}

\* The outcomes of uuidv4() for an element: one per element the store may
\* hold, no two with the same first four characters.
ElementUuid(i) == "ab1" \o NatToString(i) \o "0000-0000-4000-8000-000000000000"

\* The outcomes of uuidv4() for a view.
ViewUuid(i) == "7e570000-0000-4000-8000-00000000000" \o NatToString(i)

\* The outcome of a call of uuidv4() is an identity nothing in use has.  Which
\* one it is does not matter, so a call takes the first of the n outcomes
\* that is free (none when all are taken): FirstFree is its index, given the
\* indices of the outcomes in use.
FirstFree(n, used) ==
  {i \in 1..n : i \notin used /\ \A j \in 1..(i - 1) : j \in used}

FreshElementUuid(elements) ==
  {ElementUuid(i) :
     i \in FirstFree(MaxStoreElements,
                     {k \in 1..MaxStoreElements : ElementUuid(k) \in IdsOf(elements)})}

FreshViewUuid(views) ==
  {ViewUuid(i) :
     i \in FirstFree(MaxStoreViews, {k \in 1..MaxStoreViews : ViewUuid(k) \in IdsOf(views)})}

\* The workspaces handed to loadWorkspace: saved with no views, saved with
\* only the container view of its software system, and the one the store holds.
StoredSystem ==
  Element("c3d40000-0000-4000-8000-000000000001", "softwareSystem", "Shop",
          Undefined, [x |-> 40, y |-> 40])

StoredWorkspaces ==
  {[name |-> "Saved", description |-> "", elements |-> <<StoredSystem>>,
    relationships |-> <<>>, views |-> views] :
     views \in {<<>>, StoreViews(<<StoredSystem>>, 1),
                initialWorkspace.views \o StoreViews(<<StoredSystem>>, 1)}}

InitStore ==
  /\ pc = "model"
  /\ workspace = initialWorkspace
  /\ script = <<>>
  /\ dslText = ""
  /\ imported = <<>>
  /\ reimported = <<>>
  /\ synthesized = <<>>
  /\ error = Null
  /\ workspaceVersion = 0
  /\ currentViewId = "landscape"
  /\ selectedElementId = Null
  /\ selectedRelationshipId = Null

\* PropertiesPanel.createViewForElement: the view handed to addView for a
\* container; its name and description come from the translation table.
componentsView(element) ==
  View(Undefined, sanitizeKey(element.name) \o "_Components", "component", Undefined,
       element.id, element.name \o " - Components", "Component view for " \o element.name)

AddElement ==
  /\ pc = "model"
  /\ workspaceVersion < MaxVersion
  /\ Len(workspace.elements) < MaxStoreElements
  /\ Len(workspace.views) < MaxStoreViews
  /\ \E id \in FreshElementUuid(workspace.elements) :
       \E viewId \in FreshViewUuid(workspace.views) :
         \E type \in StoreKinds :
           \E parentId \in {Undefined} \cup IdsOf(workspace.elements) :
             workspace' = addElement(workspace, id, viewId, type,
                                     ElementPosition(Len(workspace.elements) + 1), parentId)
  /\ workspaceVersion' = workspaceVersion + 1
  /\ UNCHANGED <<pc, script, dslText, imported, reimported, synthesized, error>>
  /\ UNCHANGED <<currentViewId, selectedElementId, selectedRelationshipId>>

\* An id no element has.
UnknownId == "00000000-0000-4000-8000-00000000dead"

\* renameElement(id, newName); for an id no element has it returns the state
\* as it is.
RenameElementTo(id, newName) ==
  /\ pc = "model"
  /\ workspaceVersion < MaxVersion
  /\ workspace' = renameElement(workspace, id, newName)
  /\ selectedElementId' = selectedAfterRename(workspace, selectedElementId, id, newName)
  /\ workspaceVersion' =
       (IF id \in IdsOf(workspace.elements) THEN workspaceVersion + 1 ELSE workspaceVersion)
  /\ UNCHANGED <<pc, script, dslText, imported, reimported, synthesized, error>>
  /\ UNCHANGED <<currentViewId, selectedRelationshipId>>

RenameElement ==
  \E id \in IdsOf(workspace.elements) \cup {UnknownId} :
    \E newName \in NewNames : RenameElementTo(id, newName)

UpdateElement ==
  /\ pc = "model"
  /\ workspaceVersion < MaxVersion
  /\ \E id \in IdsOf(workspace.elements) :
       \E updates \in ElementUpdates : workspace' = updateElement(workspace, id, updates)
  /\ workspaceVersion' = workspaceVersion + 1
  /\ UNCHANGED <<pc, script, dslText, imported, reimported, synthesized, error>>
  /\ UNCHANGED <<currentViewId, selectedElementId, selectedRelationshipId>>

DeleteElement ==
  /\ pc = "model"
  /\ workspaceVersion < MaxVersion
  /\ \E id \in IdsOf(workspace.elements) :
       /\ workspace' = deleteElement(workspace, id)
       /\ currentViewId' = nextCurrentViewId(workspace, currentViewId, id)
       /\ selectedElementId' = (IF selectedElementId = id THEN Null ELSE selectedElementId)
  /\ workspaceVersion' = workspaceVersion + 1
  /\ UNCHANGED <<pc, script, dslText, imported, reimported, synthesized, error>>
  /\ UNCHANGED selectedRelationshipId

AddRelationship ==
  /\ pc = "model"
  /\ workspaceVersion < MaxVersion
  /\ workspace.relationships = <<>>
  /\ \E sourceId \in IdsOf(workspace.elements) :
       \E targetId \in IdsOf(workspace.elements) \ {sourceId} :
         workspace' = addRelationship(workspace, "4e1a0000-0000-4000-8000-000000000001",
                                      sourceId, targetId, "Uses")
  /\ workspaceVersion' = workspaceVersion + 1
  /\ UNCHANGED <<pc, script, dslText, imported, reimported, synthesized, error>>
  /\ UNCHANGED <<currentViewId, selectedElementId, selectedRelationshipId>>

UpdateRelationship ==
  /\ pc = "model"
  /\ workspaceVersion < MaxVersion
  /\ \E id \in IdsOf(workspace.relationships) :
       \E updates \in RelationshipUpdates :
         workspace' = updateRelationship(workspace, id, updates)
  /\ workspaceVersion' = workspaceVersion + 1
  /\ UNCHANGED <<pc, script, dslText, imported, reimported, synthesized, error>>
  /\ UNCHANGED <<currentViewId, selectedElementId, selectedRelationshipId>>

DeleteRelationship ==
  /\ pc = "model"
  /\ workspaceVersion < MaxVersion
  /\ \E id \in IdsOf(workspace.relationships) :
       /\ workspace' = deleteRelationship(workspace, id)
       /\ selectedRelationshipId' =
            (IF selectedRelationshipId = id THEN Null ELSE selectedRelationshipId)
  /\ workspaceVersion' = workspaceVersion + 1
  /\ UNCHANGED <<pc, script, dslText, imported, reimported, synthesized, error>>
  /\ UNCHANGED <<currentViewId, selectedElementId>>

\* addView of a context view of a software system, and
\* createViewForElement for a container: addView of its component view and
\* setCurrentView of the new view.
AddView ==
  /\ pc = "model"
  /\ workspaceVersion < MaxVersion
  /\ Len(workspace.views) < MaxStoreViews
  /\ \E id \in FreshViewUuid(workspace.views) :
       \E i \in 1..Len(workspace.elements) :
         \/ /\ workspace.elements[i].type = "softwareSystem"
            /\ workspace' = addView(workspace, id,
                                    View(Undefined, "Context", "systemContext",
                                         workspace.elements[i].id, Undefined, "Context", ""))
            /\ UNCHANGED currentViewId
         \/ /\ workspace.elements[i].type = "container"
            /\ workspace' = addView(workspace, id, componentsView(workspace.elements[i]))
            /\ currentViewId' = id
  /\ workspaceVersion' = workspaceVersion + 1
  /\ UNCHANGED <<pc, script, dslText, imported, reimported, synthesized, error>>
  /\ UNCHANGED <<selectedElementId, selectedRelationshipId>>

RenameView ==
  /\ pc = "model"
  /\ workspaceVersion < MaxVersion
  /\ \E id \in IdsOf(workspace.views) :
       \E newName \in NewNames :
         /\ workspace' = renameView(workspace, id, newName)
         /\ currentViewId' = currentViewAfterRenameView(workspace, currentViewId, id, newName)
  /\ workspaceVersion' = workspaceVersion + 1
  /\ UNCHANGED <<pc, script, dslText, imported, reimported, synthesized, error>>
  /\ UNCHANGED <<selectedElementId, selectedRelationshipId>>

UpdateView ==
  /\ pc = "model"
  /\ workspaceVersion < MaxVersion
  /\ \E id \in IdsOf(workspace.views) :
       \E updates \in ViewUpdates : workspace' = updateView(workspace, id, updates)
  /\ workspaceVersion' = workspaceVersion + 1
  /\ UNCHANGED <<pc, script, dslText, imported, reimported, synthesized, error>>
  /\ UNCHANGED <<currentViewId, selectedElementId, selectedRelationshipId>>

DeleteView ==
  /\ pc = "model"
  /\ workspaceVersion < MaxVersion
  /\ \E id \in IdsOf(workspace.views) :
       /\ workspace' = deleteView(workspace, id)
       /\ currentViewId' = currentViewAfterDeleteView(workspace, currentViewId, id)
  /\ workspaceVersion' = workspaceVersion + 1
  /\ UNCHANGED <<pc, script, dslText, imported, reimported, synthesized, error>>
  /\ UNCHANGED <<selectedElementId, selectedRelationshipId>>

ClearWorkspace ==
  /\ pc = "model"
  /\ workspace' = clearWorkspace
  /\ currentViewId' = "landscape"
  /\ selectedElementId' = Null
  /\ selectedRelationshipId' = Null
  /\ UNCHANGED <<pc, script, dslText, imported, reimported, synthesized, error, workspaceVersion>>

\* loadWorkspace of a stored workspace; imported keeps what was handed over.
LoadWorkspace ==
  /\ pc = "model"
  /\ workspaceVersion < MaxVersion
  /\ imported = <<>>
  /\ \E stored \in StoredWorkspaces :
       /\ imported' = <<stored>>
       /\ workspace' = loadWorkspace(stored)
  /\ currentViewId' = firstViewId(workspace')
  /\ selectedElementId' = Null
  /\ selectedRelationshipId' = Null
  /\ workspaceVersion' = workspaceVersion + 1
  /\ UNCHANGED <<pc, script, dslText, reimported, synthesized, error>>

\* validateWorkspace of the store's workspace; error keeps the outcome.
Validate ==
  /\ pc = "model"
  /\ error' = validateWorkspace(workspace)
  /\ pc' = "validated"
  /\ UNCHANGED <<workspace, script, dslText, imported, reimported, synthesized,
                 workspaceVersion,
                 currentViewId, selectedElementId, selectedRelationshipId>>

NextStore ==
  \/ AddElement \/ RenameElement \/ UpdateElement \/ DeleteElement
  \/ AddRelationship \/ UpdateRelationship \/ DeleteRelationship
  \/ AddView \/ RenameView \/ UpdateView \/ DeleteView
  \/ ClearWorkspace \/ LoadWorkspace
  \/ OpenEditor \/ Validate

SpecStore == InitStore /\ [][NextStore]_vars

\* C11: identifier uniqueness after generation.  When the editor shows the
\* text of a workspace whose element ids are pairwise distinct, the
\* identifiers generateDSL gave to distinct elements are pairwise distinct.
C11_UniqueIdentifiers ==
  pc = "text" =>
    \A i, j \in 1..Len(workspace.elements) :
      (i # j /\ workspace.elements[i].id # workspace.elements[j].id)
        => generateIdentifier(workspace.elements[i]) # generateIdentifier(workspace.elements[j])

(***************************************************************************)
(* Generating the text of a workspace                                      *)
(***************************************************************************)

MaxGenElements == 3

\* Element i of a generated workspace: named N<i>, with an id renameElement
\* made, of a kind that is written with an identifier (container) or, for the
\* first two, without (group).
GenId(i) == "N" \o NatToString(i) \o "_Element"

GenKinds == {"container", "group"}

\* The id of an element that is not in the workspace.
GoneId == "Gone_Element"

\* The parents of n elements: parents[i] is the index of the parent of
\* element i, 0 for none.  Following the parents from any element ends at a
\* root; a parent may stand later in the list than its child.
RECURSIVE RootWithin(_, _, _)
RootWithin(parents, i, fuel) ==
  IF parents[i] = 0 THEN TRUE
  ELSE IF fuel = 0 THEN FALSE
  ELSE RootWithin(parents, parents[i], fuel - 1)

Forests(n) ==
  {parents \in [1..n -> 0..n] : \A i \in 1..n : RootWithin(parents, i, n)}

GenElements(n) ==
  {[i \in 1..n |->
      Element(GenId(i), kinds[i], "N" \o NatToString(i),
              IF parents[i] = 0 THEN Undefined ELSE GenId(parents[i]), ElementPosition(i))] :
     parents \in Forests(n),
     kinds \in {k \in [1..n -> GenKinds] : \A i \in 3..n : k[i] = "container"}}

\* The relationship lists of a generated workspace: none; two between
\* existing elements; the two with a relationship from an absent element
\* between them; and one to an absent element before one between existing
\* elements.
GenRelationships(n) ==
  {<<>>}
  \cup (IF n < 2 THEN {}
        ELSE {<<Relationship("r1", GenId(2), GenId(1), "Calls"),
                Relationship("r2", GenId(1), GenId(2), "Uses")>>,
              <<Relationship("r1", GenId(2), GenId(1), "Calls"),
                Relationship("r3", GoneId, GenId(1), "Was"),
                Relationship("r2", GenId(1), GenId(2), "Uses")>>,
              <<Relationship("r4", GenId(1), GoneId, "Lost"),
                Relationship("r2", GenId(1), GenId(2), "Uses")>>})

InitGenerate ==
  /\ pc = "model"
  /\ \E n \in 0..MaxGenElements :
       \E elements \in GenElements(n) :
         \E relationships \in GenRelationships(n) :
           workspace = [name |-> "W", description |-> "D", elements |-> elements,
                        relationships |-> relationships, views |-> initialWorkspace.views]
  /\ script = <<>>
  /\ dslText = ""
  /\ imported = <<>>
  /\ reimported = <<>>
  /\ synthesized = <<>>
  /\ error = Null
  /\ workspaceVersion = 0
  /\ currentViewId = "landscape"
  /\ selectedElementId = Null
  /\ selectedRelationshipId = Null

NextGenerate == OpenEditor

SpecGenerate == InitGenerate /\ [][NextGenerate]_vars

\* The lines of a text.
TextLines == Split(dslText, "\n")

\* The index of the first line from index i that is the given line, one past
\* the last line when there is none.
RECURSIVE LineIndex(_, _, _)
LineIndex(lines, line, i) ==
  IF i <= Len(lines) /\ lines[i] # line THEN LineIndex(lines, line, i + 1) ELSE i

\* The lines of the model block: those after the line opening it and before
\* the line closing it.
ModelLinesOf(lines, open) ==
  SubSeq(lines, open + 1, LineIndex(lines, indent \o "}", open) - 1)

ModelLines == ModelLinesOf(TextLines, LineIndex(TextLines, indent \o "model {", 1))

IsDeclarationLine(line) == elementMatch(Trim(line)).ok \/ groupMatch(Trim(line)).ok

IsRelationshipLine(line) == ~IsDeclarationLine(line) /\ relMatch(Trim(line)).ok

\* The kind and name a declaration line declares.
DeclaredKindAndName(line) ==
  IF elementMatch(Trim(line)).ok
  THEN <<elementMatch(Trim(line)).groups[2], elementMatch(Trim(line)).groups[3]>>
  ELSE <<"group", groupMatch(Trim(line)).groups[1]>>

\* How many spaces a line starts with.
LeadingSpaces(line) == SpacesEnd(line, 1) - 1

\* How many elements enclose an element.
Depth(w, el) == Len(ParentChain(w, el)) - 1

\* The relationships whose two ends are elements of the workspace.
WholeRelationships(w) ==
  SelectSeq(w.relationships,
            LAMBDA rel : rel.sourceId \in IdsOf(w.elements) /\ rel.targetId \in IdsOf(w.elements))

\* The declaration lines follow the given order of elements, each indented
\* by its depth in the tree.
DeclaredInOrder(decls, order) ==
  /\ Len(decls) = Len(order)
  /\ \A k \in 1..Len(order) :
       /\ k <= Len(decls)
       /\ DeclaredKindAndName(decls[k]) = <<order[k].type, order[k].name>>
       /\ LeadingSpaces(decls[k]) = Len(indent) * (2 + Depth(workspace, order[k]))

\* The relationship lines follow the given relationships, by description.
RelationshipsInOrder(rels, relationships) ==
  /\ Len(rels) = Len(relationships)
  /\ \A k \in 1..Len(relationships) :
       k <= Len(rels) => relMatch(Trim(rels[k])).groups[3] = relationships[k].description

\* Every relationship line of the lines comes after every declaration line.
RelationshipsLast(lines) ==
  \A i \in 1..Len(lines) : \A j \in 1..Len(lines) :
    IsRelationshipLine(lines[i]) /\ IsDeclarationLine(lines[j]) => j < i

OrderedModel(lines) ==
  /\ DeclaredInOrder(SelectSeq(lines, IsDeclarationLine), DeclarationOrder(workspace))
  /\ RelationshipsInOrder(SelectSeq(lines, IsRelationshipLine), WholeRelationships(workspace))
  /\ RelationshipsLast(lines)

\* C12: generator ordering.  In the model block of the generated text the
\* element declaration lines are the elements reachable from a root, each
\* once, in depth-first pre-order (roots in collection order, the children of
\* an element in collection order inside its block before its next sibling),
\* and the relationship lines come after every declaration line, in the order
\* of the relationships collection.
C12_GeneratorOrdering ==
  pc = "text" => OrderedModel(ModelLines)

\* A text was generated for three elements whose pre-order is not their
\* collection order (the third is a child of the first, the second a root),
\* with two relationships.
GeneratedInPreOrder(decls, rels) ==
  /\ Len(decls) = 3
  /\ Len(rels) = 2
  /\ DeclaredKindAndName(decls[2])[2] = "N3"

C12_Witness ==
  /\ pc = "text"
  /\ Len(workspace.elements) = 3
  /\ workspace.elements[3].parentId = GenId(1)
  /\ workspace.elements[2].parentId = Undefined
  /\ workspace.elements[1].parentId = Undefined
  /\ Len(workspace.relationships) = 2
  /\ GeneratedInPreOrder(SelectSeq(ModelLines, IsDeclarationLine),
                      SelectSeq(ModelLines, IsRelationshipLine))

\* The line generateModel writes for a relationship between existing elements.
RelationshipLineOf(rel) ==
  Repeat(indent, 2) \o generateIdentifier(ElementById(workspace, rel.sourceId)) \o " -> "
  \o generateIdentifier(ElementById(workspace, rel.targetId))
  \o " \"" \o rel.description \o "\""

HasDangling(w) == Len(WholeRelationships(w)) < Len(w.relationships)

\* Every line of the text with an arrow is one of the given lines.
ArrowsOnlyIn(lines, rels) ==
  \A i \in 1..Len(lines) : Includes(lines[i], "->") => lines[i] \in Range(rels)

\* C13: the generator does not fail on a dangling relationship.  For a
\* workspace with a relationship whose source or target is no element, the
\* text is generated, its relationship lines are exactly the lines of the
\* relationships whose two ends exist, one each, and no line names the
\* absent element.
C13_DanglingOmitted ==
  pc = "text" /\ HasDangling(workspace) =>
    /\ SelectSeq(ModelLines, IsRelationshipLine)
         = [k \in 1..Len(WholeRelationships(workspace)) |->
              RelationshipLineOf(WholeRelationships(workspace)[k])]
    /\ ArrowsOnlyIn(TextLines, SelectSeq(ModelLines, IsRelationshipLine))
    /\ ~Includes(dslText, "Gone") /\ ~Includes(dslText, "undefined")

\* A text was generated for a workspace whose second relationship, of three,
\* has no source element: the text has the lines of the other two.
C13_Witness ==
  /\ pc = "text"
  /\ Len(workspace.relationships) = 3
  /\ workspace.relationships[2].sourceId = GoneId
  /\ Len(SelectSeq(ModelLines, IsRelationshipLine)) = 2
  /\ Includes(dslText, "N2_Element -> N1_Element \"Calls\"")
  /\ Includes(dslText, "N1_Element -> N2_Element \"Uses\"")

\* C15: the views collection is never empty after a load.  In every state of
\* the store after loadWorkspace, whatever store actions followed, the
\* workspace has at least one view.
C15_ViewsNeverEmpty ==
  imported # <<>> => Len(workspace.views) >= 1

\* The kinds of element of the data model (C4ElementType).
DataModelKinds == {"person", "softwareSystem", "container", "component", "group"}

\* The message of the invalid-kind ValidationError.
IsInvalidKindError(message) == StartsWith(message, "Invalid element type: ")

\* C16: the validation layer accepts exactly the element kinds of the data
\* model.  For a workspace whose elements all have an id and a name,
\* validateWorkspace raises the invalid-kind error if and only if an element
\* has a kind that is not person, softwareSystem, container, component or
\* group; a workspace with a group element that satisfies every invariant
\* passes.
C16_ValidKinds ==
  pc = "validated" =>
    (IsInvalidKindError(error)
       <=> \E i \in 1..Len(workspace.elements) :
             workspace.elements[i].type \notin DataModelKinds)

(***************************************************************************)
(* Nested blocks: the scope stack                                          *)
(***************************************************************************)

MaxNested == 3

\* The forms of a declaration: an element declaration without a block, an
\* element declaration that opens a block, and a group.
NestedForms == {"leaf", "element", "group"}

\* The declarations whose blocks enclose declaration i, the nearest first;
\* parents[i] is the declaration whose block holds declaration i, 0 for none.
RECURSIVE Enclosing(_, _)
Enclosing(parents, i) ==
  IF parents[i] = 0 THEN <<>> ELSE <<parents[i]>> \o Enclosing(parents, parents[i])

\* The declarations whose block is open after declaration i has been written.
OpenAfter(parents, forms, i) ==
  IF i = 0 THEN {}
  ELSE {j \in {i} \cup Range(Enclosing(parents, i)) : forms[j] # "leaf"}

\* The nestings of n declarations written one after the other: each stands
\* at the top level or in a block that is open when it is written.
Nestings(n) ==
  {pf \in [1..n -> 0..n] \X [1..n -> NestedForms] :
     \A i \in 1..n :
       /\ pf[1][i] < i
       /\ Range(Enclosing(pf[1], i)) \subseteq OpenAfter(pf[1], pf[2], i - 1)}

\* The dotted path of declaration i: the identifiers of the element
\* declarations that enclose it and its own, joined by '.'.
RECURSIVE DottedPath(_, _, _)
DottedPath(parents, forms, i) ==
  LET outer == IF parents[i] = 0 THEN "" ELSE DottedPath(parents, forms, parents[i])
      ident == "n" \o NatToString(i)
  IN IF forms[i] = "group" THEN outer
     ELSE IF outer = "" THEN ident
     ELSE outer \o "." \o ident

\* The statement of declaration i.
NestedStatement(parents, forms, i) ==
  IF forms[i] = "group" THEN GroupOpen("N" \o NatToString(i))
  ELSE Decl("n" \o NatToString(i), DottedPath(parents, forms, i),
            IF parents[i] = 0 THEN "softwareSystem" ELSE "container",
            "N" \o NatToString(i), forms[i] = "element")

\* k closing braces.
Closes(k) == [c \in 1..k |-> BlockClose]

\* The statements of a nesting from declaration i on: before a declaration
\* the blocks that do not enclose it are closed, after the last all are.
RECURSIVE NestedFrom(_, _, _)
NestedFrom(parents, forms, i) ==
  IF i > Len(parents)
  THEN Closes(Cardinality(OpenAfter(parents, forms, i - 1)))
  ELSE Closes(Cardinality(OpenAfter(parents, forms, i - 1) \ Range(Enclosing(parents, i))))
       \o <<NestedStatement(parents, forms, i)>>
       \o NestedFrom(parents, forms, i + 1)

NestedModels == {NestedFrom(pf[1], pf[2], 1) : pf \in UNION {Nestings(n) : n \in 0..MaxNested}}

NestedScripts == {Script(model, <<>>, FALSE, <<>>) : model \in NestedModels}

InitNested == InitScript(NestedScripts)

NextNested == WriteText \/ ParseText

SpecNested == InitNested /\ [][NextNested]_vars

\* The number of blocks open before statement i of a model block.
BraceDepth(model, i) ==
  Cardinality({j \in 1..(i - 1) : model[j].open})
  - Cardinality({j \in 1..(i - 1) : model[j].op = "close"})

\* The statement whose brace block most closely encloses statement i: the
\* last one before it that opens a block one level up; 0 when there is none.
Encloser(model, i) ==
  LET openers == {j \in 1..(i - 1) :
                    model[j].open /\ BraceDepth(model, j) = BraceDepth(model, i) - 1}
  IN IF openers = {} THEN 0 ELSE CHOOSE j \in openers : \A k \in openers : k <= j

\* The statements of a model block that declare an element, in order.
DeclarationLines(model) ==
  SelectSeq([i \in 1..Len(model) |-> i], LAMBDA i : model[i].op # "close")

\* The place of statement i among the declarations.
DeclarationNumber(model, i) == Cardinality({j \in 1..i : model[j].op # "close"})

\* The elements are those the model block declares, and the parent of each
\* is the element of the enclosing block.
ParentsByBlock(model, lines, elements) ==
  /\ Len(elements) = Len(lines)
  /\ \A k \in 1..Len(lines) :
       /\ elements[k].name = model[lines[k]].name
       /\ elements[k].parentId =
            (IF Encloser(model, lines[k]) = 0 THEN Undefined
             ELSE elements[DeclarationNumber(model, Encloser(model, lines[k]))].id)

\* No element has an element declared without a block as its parent.
LeavesChildless(model, lines, elements) ==
  \A k, m \in 1..Len(lines) :
    ~model[lines[k]].open => elements[m].parentId # elements[k].id

Resolves(model, context) ==
  \A i \in 1..Len(model) :
    model[i].op = "element" =>
      /\ MapGet(context.identifierMap, model[i].ident)
           = context.elements[DeclarationNumber(model, i)].id
      /\ MapGet(context.identifierMap, model[i].path)
           = context.elements[DeclarationNumber(model, i)].id

\* C20: the identifier table.  After the scan of a text whose bare
\* identifiers are unique, the bare identifier of every declared element and
\* its dotted path (the identifiers of the element declarations that enclose
\* it and its own, joined by '.') resolve to the element's id, also when the
\* element is declared in a group block inside its parent element.
C20_IdentifierTable ==
  pc = "parsed" =>
    \A random \in Randoms :
      Resolves(script.model, parseDsl(Split(dslText, "\n"), NewContext(random)))

(***************************************************************************)
(* Statements the parser does not know, and the styles block               *)
(***************************************************************************)

\* Statements that match none of the parser's patterns: a line, and a block
\* (a line ending in `{` with its matching `}` line).
UnrecognizedStatements == {<<"tags \"Core\"">>, <<"properties {", "}">>}

\* The styles block as the generator writes it.
StylesBlock == <<"styles {">> \o generateStyles(indent, indent \o indent) \o <<"}">>

\* The lines with the extra lines put in after line p.
InsertLines(lines, p, extra) ==
  SubSeq(lines, 1, p) \o extra \o SubSeq(lines, p + 1, Len(lines))

\* Texts with an element block, relationships, and views with position
\* metadata in an element block.
EditedScripts ==
  {Script(model, <<Rel("a.w", "a", "Uses")>>, FALSE, views) :
     model \in {SystemWithContainer, TwoSystems},
     views \in {<<>>,
                <<ViewBlock("container", "a", "Ca", <<Mark("block", "w", 15, 25)>>),
                  ViewBlock("systemLandscape", "", "L1", <<>>)>>}}

\* The places of a script's text where a styles block can stand: in the
\* views section, before, between and after its view blocks (the number of
\* lines that precede the block).
StylesPlaces(s) ==
  {Len(s.model) + Len(s.rels) + 4 + Len(AllViewBlockLines(SubSeq(s.views, 1, j))) :
     j \in 0..Len(s.views)}

InitEdited == InitScript(EditedScripts)

\* An unrecognized statement is put into the text, after any of its lines
\* but the last.
InsertUnrecognized ==
  /\ pc = "parsed"
  /\ \E extra \in UnrecognizedStatements :
       \E p \in 1..(Len(Split(dslText, "\n")) - 1) :
         dslText' = Join(InsertLines(Split(dslText, "\n"), p, extra), "\n")
  /\ pc' = "inserted"
  /\ UNCHANGED <<workspace, script, imported, reimported, synthesized, error, workspaceVersion,
                 currentViewId, selectedElementId, selectedRelationshipId>>

\* A styles block is put into the views section of the text.
InsertStyles ==
  /\ pc = "parsed"
  /\ \E p \in StylesPlaces(script) :
       dslText' = Join(InsertLines(Split(dslText, "\n"), p, StylesBlock), "\n")
  /\ pc' = "styled"
  /\ UNCHANGED <<workspace, script, imported, reimported, synthesized, error, workspaceVersion,
                 currentViewId, selectedElementId, selectedRelationshipId>>

\* parseDSL of the edited text.
ParseEdited ==
  /\ pc \in {"inserted", "styled"}
  /\ \E random \in Randoms : reimported' = <<parseDSL(dslText, random)>>
  /\ pc' = pc \o "-parsed"
  /\ UNCHANGED <<workspace, script, dslText, imported, synthesized, error, workspaceVersion,
                 currentViewId, selectedElementId, selectedRelationshipId>>

NextEdited == WriteText \/ ParseText \/ InsertUnrecognized \/ InsertStyles \/ ParseEdited

SpecEdited == InitEdited /\ [][NextEdited]_vars

\* The indices of the elements of w with the given id.
Holders(w, id) == {i \in 1..Len(w.elements) : w.elements[i].id = id}

\* The elements of a workspace with their parent links.
ParentLinks(w) ==
  [k \in 1..Len(w.elements) |->
     <<w.elements[k].name, w.elements[k].type, w.elements[k].description,
       Holders(w, w.elements[k].parentId)>>]

\* The views of a workspace with the elements they are anchored on.
ViewAnchors(w) ==
  [k \in 1..Len(w.views) |->
     <<w.views[k].type, w.views[k].key, w.views[k].description,
       Holders(w, w.views[k].softwareSystemId), Holders(w, w.views[k].containerId)>>]

\* Two workspaces have the same elements, parent links, relationships and views.
SameModel(v, w) ==
  /\ ParentLinks(v) = ParentLinks(w)
  /\ RelationshipPairs(v) = RelationshipPairs(w)
  /\ ViewAnchors(v) = ViewAnchors(w)

\* C18: unrecognized lines are skipped without side effects.  A text and the
\* same text with an unrecognized statement (a line, or a block of a line
\* ending in `{` and its `}` line) inserted anywhere parse to the same
\* elements, parent links, relationships and views.
C18_UnrecognizedSkipped ==
  pc = "inserted-parsed" => SameModel(Reparsed, Parsed)

\* What a scan has gathered: the element, relationship and view lists, the
\* position table, the scope stack and the inside-views flag.
Gathered(st) ==
  <<st.context.elements, st.context.pendingRelationships, st.context.relationships,
    st.context.views, st.context.positions, st.elementStack, st.currentInViews>>

\* The scan of the lines up to the end of the styles block that opens at the
\* given line has gathered what the scan of the lines before the block has.
StylesBlockIgnored(lines, open) ==
  \A random \in Randoms :
    Gathered(scanLines(SubSeq(lines, 1, open + Len(StylesBlock) - 1),
                       NewScan(NewContext(random))))
      = Gathered(scanLines(SubSeq(lines, 1, open - 1), NewScan(NewContext(random))))

\* The first styles block of the lines is ignored.
StylesIgnoredIn(lines) == StylesBlockIgnored(lines, LineIndex(lines, "styles {", 1))

\* C19: the lines of a styles scope are ignored.  From the `styles {` line to
\* its matching closing brace no line changes the element list, the
\* relationship list, the view list, the position table, the scope stack or
\* the inside-views flag, and the text with a styles block in its views
\* section parses to the same views as the text without it.
C19_StylesIgnored ==
  /\ pc = "styled" => StylesIgnoredIn(Split(dslText, "\n"))
  /\ pc = "styled-parsed" => SameModel(Reparsed, Parsed)

(***************************************************************************)
(* References between the parts of the store's state                       *)
(***************************************************************************)

\* selectElement(id): an element of the canvas, or null (a click on the pane).
SelectElement ==
  /\ pc = "model"
  /\ \E id \in IdsOf(workspace.elements) \cup {Null} : selectedElementId' = id
  /\ selectedRelationshipId' = Null
  /\ UNCHANGED <<pc, workspace, script, dslText, imported, reimported, synthesized, error,
                 workspaceVersion, currentViewId>>

NextIntegrity ==
  \/ AddElement \/ RenameElement \/ DeleteElement
  \/ AddRelationship \/ DeleteRelationship
  \/ AddView \/ DeleteView
  \/ SelectElement

SpecIntegrity == InitStore /\ [][NextIntegrity]_vars

\* Building a workspace and renaming its elements.
NextRekey ==
  AddElement \/ AddRelationship \/ AddView \/ SelectElement \/ RenameElement

SpecRekey == InitStore /\ [][NextRekey]_vars

\* What an id stands for after the element with the id `old` has got the id `new`.
Rekey(id, old, new) == IF id = old THEN new ELSE id

\* The ids a store state refers to elements by.
ReferencedIds(ws, selected) ==
  {ws.elements[i].parentId : i \in 1..Len(ws.elements)}
  \cup {ws.relationships[i].sourceId : i \in 1..Len(ws.relationships)}
  \cup {ws.relationships[i].targetId : i \in 1..Len(ws.relationships)}
  \cup {ws.views[i].softwareSystemId : i \in 1..Len(ws.views)}
  \cup {ws.views[i].containerId : i \in 1..Len(ws.views)}
  \cup {selected}

\* The state (after, selectedAfter) is the state (before, selectedBefore) with
\* the element at index i re-keyed: its id is that of no other element, every
\* reference to the old id is one to the new id, and no other id or
\* reference has changed.
Rekeyed(before, selectedBefore, after, selectedAfter, i) ==
  LET old == before.elements[i].id
      new == after.elements[i].id
  IN /\ Len(after.elements) = Len(before.elements)
     /\ Len(after.relationships) = Len(before.relationships)
     /\ Len(after.views) = Len(before.views)
     /\ \A j \in 1..Len(before.elements) :
          /\ j # i => after.elements[j].id = before.elements[j].id
          /\ j # i => after.elements[j].id # new
          /\ after.elements[j].parentId = Rekey(before.elements[j].parentId, old, new)
     /\ \A j \in 1..Len(before.relationships) :
          /\ after.relationships[j].sourceId = Rekey(before.relationships[j].sourceId, old, new)
          /\ after.relationships[j].targetId = Rekey(before.relationships[j].targetId, old, new)
     /\ \A j \in 1..Len(before.views) :
          /\ after.views[j].softwareSystemId = Rekey(before.views[j].softwareSystemId, old, new)
          /\ after.views[j].containerId = Rekey(before.views[j].containerId, old, new)
     /\ selectedAfter = Rekey(selectedBefore, old, new)
     /\ new # old => old \notin IdsOf(after.elements) \cup ReferencedIds(after, selectedAfter)

\* What every step of renameElement does: it keeps the lengths of the lists,
\* the current view and the selected relationship.
RenameShaped ==
  /\ Len(workspace'.elements) = Len(workspace.elements)
  /\ Len(workspace'.relationships) = Len(workspace.relationships)
  /\ Len(workspace'.views) = Len(workspace.views)
  /\ UNCHANGED <<currentViewId, selectedRelationshipId>>

\* A step of renameElement(id, ...) counts one update when an element has
\* the id, none otherwise.
RenameCounted(id) ==
  workspaceVersion' =
    (IF id \in IdsOf(workspace.elements) THEN workspaceVersion + 1 ELSE workspaceVersion)

\* A step of renameElement(id, newName) re-keys the element with the id, and
\* changes nothing when no element has the id.
RekeyStep(id, newName) ==
  (RenameCounted(id) /\ RenameElementTo(id, newName)) =>
    IF id \in IdsOf(workspace.elements)
    THEN Rekeyed(workspace, selectedElementId, workspace', selectedElementId',
                 IndexOfId(workspace, id))
    ELSE UNCHANGED vars

\* C21: re-key on rename.  renameElement(id, newName) is one store
\* transition after which the renamed element's id differs from the id of
\* every other element, and every parentId, sourceId, targetId,
\* softwareSystemId, containerId and selectedElementId that was the old id is
\* the new id, so that no reference to the old id remains unless the id is
\* unchanged; renaming an id no element has changes nothing.
C21_RekeyOnRename ==
  [][RenameShaped =>
       \A id \in IdsOf(workspace.elements) \cup {UnknownId} :
         \A newName \in NewNames : RekeyStep(id, newName)]_vars

\* The selected element, parent of another element, has been renamed to a
\* name another element already has: its id carries the suffix _1, and the
\* child and the selection refer to it.
C21_Witness ==
  /\ Len(workspace.elements) = 2
  /\ workspace.elements[1].id = "2fa_Person_1"
  /\ workspace.elements[2].id = "2fa_Person"
  /\ workspace.elements[2].parentId = "2fa_Person_1"
  /\ selectedElementId = "2fa_Person_1"

\* Every relationship joins two existing elements and every view with an
\* anchor is anchored on an existing element.
EdgesAndAnchorsExist(ws) ==
  /\ \A i \in 1..Len(ws.relationships) :
       /\ ws.relationships[i].sourceId \in IdsOf(ws.elements)
       /\ ws.relationships[i].targetId \in IdsOf(ws.elements)
  /\ \A i \in 1..Len(ws.views) :
       /\ Truthy(ws.views[i].softwareSystemId)
          => ws.views[i].softwareSystemId \in IdsOf(ws.elements)
       /\ Truthy(ws.views[i].containerId)
          => ws.views[i].containerId \in IdsOf(ws.elements)

\* C22: referential integrity of edges and anchors.  In every state reached
\* by addElement, addRelationship between existing elements, addView anchored
\* on an existing element, renameElement, deleteElement, deleteRelationship and
\* deleteView, the sourceId and targetId of every relationship and the
\* softwareSystemId and containerId of every view, when present, are ids of
\* existing elements; deleteElement removes every relationship and view that
\* refers to the deleted id.
C22_EdgesAndAnchors == EdgesAndAnchorsExist(workspace)

\* The first element added has been deleted after three other updates
\* (such as the adding of a second element and of a relationship between
\* the two): the second element is left, with no relationship and with the
\* landscape view only.
C22_Witness ==
  /\ workspaceVersion = 4
  /\ IdsOf(workspace.elements) = {ElementUuid(2)}
  /\ workspace.relationships = <<>>
  /\ IdsOf(workspace.views) = {"landscape"}

\* The store under the three operations that add, re-key and remove elements.
NextParents == AddElement \/ RenameElement \/ DeleteElement

SpecParents == InitStore /\ [][NextParents]_vars

\* The parent of every element that has one is an element of the workspace:
\* what the orphan check of validateWorkspace asks of each element.
ParentsExist(ws) ==
  \A i \in 1..Len(ws.elements) : validateParent(ws.elements[i], ws.elements) = Null

\* C23: in every state of the store reached by addElement (with no parent or
\* with an existing element as parent), renameElement and deleteElement, the
\* parentId of every element, when present, is the id of an element of the
\* workspace; in particular after the deletion of an element that has
\* children.
C23_ParentsExist == ParentsExist(workspace)

\* ---------------------------------------------------------------------------
\* The parent selector of the properties panel
\* ---------------------------------------------------------------------------

\* getPotentialParents(): the elements offered as parent of the selected
\* element; none when nothing is selected.
getPotentialParents(ws, selected) ==
  IF selected \notin IdsOf(ws.elements) THEN <<>>
  ELSE LET element == ws.elements[IndexOfId(ws, selected)] IN
       SelectSeq(ws.elements, LAMBDA e :
         IF e.id = element.id THEN FALSE
         ELSE IF e.type = "group" THEN TRUE
         ELSE IF element.type = "container" /\ e.type = "softwareSystem" THEN TRUE
         ELSE IF element.type = "component" /\ e.type = "container" THEN TRUE
         ELSE IF element.type \in {"softwareSystem", "person", "group"}
                 /\ e.type = "softwareSystem" THEN TRUE
         ELSE FALSE)

\* The values of the options of the parent selector: '' for None, then the
\* ids of the potential parents.
ParentOptions(ws, selected) == {""} \cup IdsOf(getPotentialParents(ws, selected))

\* The onChange handler of the parent selector, for the option val.
Reparent ==
  /\ pc = "model"
  /\ workspaceVersion < MaxVersion
  /\ selectedElementId \in IdsOf(workspace.elements)
  /\ \E val \in ParentOptions(workspace, selectedElementId) :
       workspace' = updateElement(workspace, selectedElementId,
                                  [parentId |-> IF val # "" THEN val ELSE Undefined])
  /\ workspaceVersion' = workspaceVersion + 1
  /\ UNCHANGED <<pc, script, dslText, imported, reimported, synthesized, error>>
  /\ UNCHANGED <<currentViewId, selectedElementId, selectedRelationshipId>>

\* The editor with the parent selector: elements are added, one is selected,
\* and its parent is chosen among the options.
NextReparent == AddElement \/ SelectElement \/ Reparent

SpecReparent == InitStore /\ [][NextReparent]_vars

\* The walk of the canvas from an element up its parents
\* (while (currentParentId) ...), given as many steps as there are elements:
\* TRUE when it comes to an element with no parent or to an id of no element.
RECURSIVE WalkEnds(_, _, _)
WalkEnds(ws, currentParentId, steps) ==
  IF ~Truthy(currentParentId) \/ currentParentId \notin IdsOf(ws.elements) THEN TRUE
  ELSE IF steps = 0 THEN FALSE
  ELSE WalkEnds(ws, ws.elements[IndexOfId(ws, currentParentId)].parentId, steps - 1)

Acyclic(ws) ==
  \A i \in 1..Len(ws.elements) : WalkEnds(ws, ws.elements[i].parentId, Len(ws.elements))

\* C24: in every state reached through the editor's operations, the
\* re-parenting from the properties panel included, following parentId from
\* any element comes to a root after finitely many steps: the parent relation
\* has no cycle.
C24_AcyclicParents == Acyclic(workspace)

\* ---------------------------------------------------------------------------
\* The views addElement creates
\* ---------------------------------------------------------------------------

\* The step adds an element at the end of the list: an addElement step.
ElementAdded ==
  /\ Len(workspace'.elements) = Len(workspace.elements) + 1
  /\ SubSeq(workspace'.elements, 1, Len(workspace.elements)) = workspace.elements

\* The step appends exactly one view, of the given type, whose anchor of that
\* type is the id and which has no other anchor.
OneViewAppended(type, id) ==
  /\ Len(workspace'.views) = Len(workspace.views) + 1
  /\ SubSeq(workspace'.views, 1, Len(workspace.views)) = workspace.views
  /\ LET view == workspace'.views[Len(workspace'.views)] IN
       /\ view.type = type
       /\ type = "container" => view.softwareSystemId = id /\ ~Truthy(view.containerId)
       /\ type = "component" => view.containerId = id /\ ~Truthy(view.softwareSystemId)

ViewsFollowAddedElement ==
  LET added == workspace'.elements[Len(workspace'.elements)] IN
    IF added.type = "softwareSystem" THEN OneViewAppended("container", added.id)
    ELSE IF added.type = "container" THEN OneViewAppended("component", added.id)
    ELSE workspace'.views = workspace.views

\* C25: addElement of a software system appends exactly one container view
\* whose softwareSystemId is the new element's id; addElement of a container
\* appends exactly one component view whose containerId is the new element's
\* id; addElement of any other kind leaves the views unchanged.
C25_AutomaticViews == [][ElementAdded => ViewsFollowAddedElement]_vars

\* ---------------------------------------------------------------------------
\* Apply in the DSL editor: the positions of the elements of the text
\* ---------------------------------------------------------------------------

\* Position metadata for the first two elements of a text.
ApplyMarks == {Mark("comment", "e1", 300, 0 - 20), Mark("block", "e2", 15, 25)}

\* The texts typed into the editor: one or two elements side by side, with
\* position metadata for none, one or both of them.
ApplyScripts ==
  {Script(FlatModel(n), <<>>, FALSE, <<ViewBlock("systemLandscape", "", "L1", marks)>>) :
     n \in 1..2, marks \in Arrangements(ApplyMarks, 2)}

\* The workspaces of the store when the editor opens: with no element, with
\* the software system E1, with E1 and the person E2.
ApplyElements ==
  <<Element("ab120000-0000-4000-8000-000000000021", "softwareSystem", "E1",
            Undefined, [x |-> 500, y |-> 300]),
    Element("ab120000-0000-4000-8000-000000000022", "person", "E2",
            Undefined, [x |-> 720, y |-> 300])>>

ApplyWorkspaces ==
  {[initialWorkspace EXCEPT !.elements = SubSeq(ApplyElements, 1, n),
                            !.views = @ \o StoreViews(SubSeq(ApplyElements, 1, n), 1)] :
     n \in 0..2}

InitApply ==
  /\ pc = "model"
  /\ workspace \in ApplyWorkspaces
  /\ script \in ApplyScripts
  /\ dslText = ""
  /\ imported = <<>>
  /\ reimported = <<>>
  /\ synthesized = <<>>
  /\ error = Null
  /\ workspaceVersion = 0
  /\ currentViewId = "landscape"
  /\ selectedElementId = Null
  /\ selectedRelationshipId = Null

\* The user replaces the text of the editor with the text of the script.
TypeScript ==
  /\ pc = "text"
  /\ dslText # Render(script)
  /\ dslText' = Render(script)
  /\ UNCHANGED <<pc, workspace, script, imported, reimported, synthesized, error, workspaceVersion,
                 currentViewId, selectedElementId, selectedRelationshipId>>

NextApply == OpenEditor \/ TypeScript \/ Apply

SpecApply == InitApply /\ [][NextApply]_vars

\* parse() finds a position for the element in the position metadata of the
\* text: under its identifier, or under the last segment of a dotted one.
PositionInText(context, el) ==
  \/ el.identifier \in DOMAIN context.positions
  \/ Includes(el.identifier, ".") /\ LastSegment(el.identifier) \in DOMAIN context.positions

\* The elements of the current workspace with the name and kind of el.
SameNameAndKind(current, el) ==
  {i \in 1..Len(current.elements) :
     current.elements[i].name = el.name /\ current.elements[i].type = el.type}

\* The positions of the loaded elements, given what the scan of the text has
\* gathered: the position of the text's metadata when there is one, else the
\* position of an element of the current workspace with the same name and
\* kind when there is one, else the position of the default grid.
PositionsReassociated(current, loaded, context) ==
  /\ Len(loaded.elements) = Len(context.elements)
  /\ \A i \in 1..Len(context.elements) :
       LET el == context.elements[i]
           position == loaded.elements[i].position
       IN IF PositionInText(context, el)
          THEN position = finalPosition(context, el, i - 1)
          ELSE IF SameNameAndKind(current, el) # {}
          THEN \E j \in SameNameAndKind(current, el) :
                 position = current.elements[j].position
          ELSE position = getDefaultPosition(i - 1)

\* C26: on Apply, an element of the text takes the position of the element of
\* the current workspace with the same name and kind only when no position can
\* be recovered from the text: a position recovered from the position metadata
\* of the text is the element's position in the loaded workspace.
C26_PositionsOnApply ==
  [][(pc = "text" /\ pc' = "loaded")
       => \A random \in Randoms :
            PositionsReassociated(workspace, workspace',
                                  parseDsl(Split(dslText, "\n"), NewContext(random)))]_vars

\* ---------------------------------------------------------------------------
\* Round trip of the optional fields of an element
\* ---------------------------------------------------------------------------

\* Elements with every combination of the optional fields: a description or
\* the empty one, a technology or none, a tag or none, external or not.
FieldElements ==
  {[Element("ab120000-0000-4000-8000-000000000031", type, "Api", Undefined,
            [x |-> 40, y |-> 40])
      EXCEPT !.description = description, !.technology = technology,
             !.tags = tags, !.isExternal = isExternal] :
     type \in {"softwareSystem", "person", "container"},
     description \in {"", "Serves"},
     technology \in {Undefined, "Java"},
     tags \in {<<>>, <<"Core">>},
     isExternal \in BOOLEAN}

InitFields ==
  /\ pc = "model"
  /\ \E element \in FieldElements :
       workspace = [name |-> "W", description |-> "D", elements |-> <<element>>,
                    relationships |-> <<>>,
                    views |-> initialWorkspace.views \o StoreViews(<<element>>, 1)]
  /\ script = <<>>
  /\ dslText = ""
  /\ imported = <<>>
  /\ reimported = <<>>
  /\ synthesized = <<>>
  /\ error = Null
  /\ workspaceVersion = 0
  /\ currentViewId = "landscape"
  /\ selectedElementId = Null
  /\ selectedRelationshipId = Null

NextFields == OpenEditor \/ ParseText

SpecFields == InitFields /\ [][NextFields]_vars

\* The optional fields of an element.
OptionalFields(element) ==
  [description |-> element.description, technology |-> element.technology,
   isExternal |-> element.isExternal, tags |-> element.tags]

\* C27: an element written by the generator and read back by the parser has
\* the same description, technology and external flag, also when the
\* description is empty while a technology or a tag is present, and the same
\* tag list (no further 'External' tag is added).
C27_OptionalFieldsRoundTrip ==
  pc = "parsed" =>
    /\ Len(Parsed.elements) = Len(workspace.elements)
    /\ \A i \in 1..Len(workspace.elements) :
         OptionalFields(Parsed.elements[i]) = OptionalFields(workspace.elements[i])

\* ---------------------------------------------------------------------------
\* The identifiers the generated text uses
\* ---------------------------------------------------------------------------

\* The workspace satisfies the invariants of the data model: it passes
\* validateWorkspace, the ids of its elements are pairwise distinct, the ends
\* of its relationships and the anchors of its views are elements, and the
\* parent relation has no cycle.
DataModelValid(ws) ==
  /\ validateWorkspace(ws) = Null
  /\ \A i, j \in 1..Len(ws.elements) : ws.elements[i].id = ws.elements[j].id => i = j
  /\ EdgesAndAnchorsExist(ws)
  /\ Acyclic(ws)

\* The lines of the views section: those after the line opening it.
ViewsLinesOf(lines, open) == SubSeq(lines, open + 1, Len(lines))

\* The identifier is declared by exactly one `identifier = kind ...` line.
DeclaredOnce(modelLines, identifier) ==
  Cardinality({i \in 1..Len(modelLines) :
                 /\ elementMatch(Trim(modelLines[i])).ok
                 /\ elementMatch(Trim(modelLines[i])).groups[1] = identifier}) = 1

ViewKeywords == {"systemContext", "container", "component"}

\* The identifiers the lines use: as ends of the relationship lines of the
\* model block, as anchors of the view headers and in the position metadata
\* lines of the views section.
UsedIdentifiers(modelLines, viewsLines) ==
  UNION {IF IsRelationshipLine(modelLines[i])
         THEN {relMatch(Trim(modelLines[i])).groups[1], relMatch(Trim(modelLines[i])).groups[2]}
         ELSE {} : i \in 1..Len(modelLines)}
  \cup UNION {{anchoredViewMatch(k, Trim(viewsLines[i])).groups[1] :
                 k \in {kw \in ViewKeywords : anchoredViewMatch(kw, Trim(viewsLines[i])).ok}}
              : i \in 1..Len(viewsLines)}
  \cup UNION {IF StartsWith(Trim(viewsLines[i]), "# element ")
                 /\ elementPosMatch(From(Trim(viewsLines[i]), 3)).ok
              THEN {elementPosMatch(From(Trim(viewsLines[i]), 3)).groups[1]}
              ELSE {} : i \in 1..Len(viewsLines)}

\* Every header of a view that is not the landscape view has an anchor.
HeadersAnchored(viewsLines) ==
  \A i \in 1..Len(viewsLines) : \A k \in ViewKeywords :
    StartsWith(Trim(viewsLines[i]), k \o " ") => anchoredViewMatch(k, Trim(viewsLines[i])).ok

OnlyDeclaredIdentifiers(modelLines, viewsLines) ==
  /\ \A identifier \in UsedIdentifiers(modelLines, viewsLines) :
       DeclaredOnce(modelLines, identifier)
  /\ HeadersAnchored(viewsLines)

\* C28: in the text generated for a workspace that satisfies the invariants
\* of the data model, every identifier used as an end of a relationship, as
\* the anchor of a view header or in a position metadata line is declared by
\* exactly one `identifier = kind ...` line of the model block, and every
\* header of a view other than the landscape view has a non-empty anchor.
C28_OnlyDeclaredIdentifiers ==
  (pc = "text" /\ DataModelValid(workspace))
    => \A lines \in {TextLines} :
         \A modelLines \in {ModelLinesOf(lines, LineIndex(lines, indent \o "model {", 1))} :
           \A viewsLines \in {ViewsLinesOf(lines, LineIndex(lines, indent \o "views {", 1))} :
             OnlyDeclaredIdentifiers(modelLines, viewsLines)

\* ---------------------------------------------------------------------------
\* The current view
\* ---------------------------------------------------------------------------

\* setCurrentView(id)
SetCurrentView(id) ==
  /\ pc = "model"
  /\ currentViewId' = id
  /\ UNCHANGED <<pc, workspace, script, dslText, imported, reimported, synthesized, error,
                 workspaceVersion, selectedElementId, selectedRelationshipId>>

\* The view selector of the toolbar: one option per view of the workspace.
SelectView == \E id \in IdsOf(workspace.views) : SetCurrentView(id)

\* The Home button of the toolbar, shown when the current view is not
\* 'landscape'.
Home ==
  /\ currentViewId # "landscape"
  /\ SetCurrentView("landscape")

\* loadWorkspace of the workspace parsed from the text of the store's
\* workspace.
LoadParsedWorkspace ==
  /\ pc = "model"
  /\ workspaceVersion < MaxVersion
  /\ \E text \in {generateDSL(workspace)} :
       \E random \in Randoms :
         \E parsed \in {parseDSL(text, random)} : workspace' = loadWorkspace(parsed)
  /\ workspaceVersion' = workspaceVersion + 1
  /\ currentViewId' = firstViewId(workspace')
  /\ selectedElementId' = Null
  /\ selectedRelationshipId' = Null
  /\ UNCHANGED <<pc, script, dslText, imported, reimported, synthesized, error>>

NextCurrentView ==
  AddElement \/ DeleteElement \/ DeleteView \/ RenameView \/ SelectView \/ Home
  \/ LoadParsedWorkspace

SpecCurrentView == InitStore /\ [][NextCurrentView]_vars

\* C29: in every state reached by the actions of the store and of the toolbar
\* (loadWorkspace of a parsed workspace, deleteView, deleteElement,
\* renameView, the Home button), currentViewId is null or the id of a view of
\* the workspace; in particular it does not name a view deleteView has
\* deleted.
C29_CurrentViewValid ==
  currentViewId = Null \/ currentViewId \in IdsOf(workspace.views)

\* ---------------------------------------------------------------------------
\* The selection
\* ---------------------------------------------------------------------------

\* selectRelationship(id): an edge of the canvas or a relationship of the
\* properties panel, or null.
SelectRelationship ==
  /\ pc = "model"
  /\ \E id \in IdsOf(workspace.relationships) \cup {Null} : selectedRelationshipId' = id
  /\ selectedElementId' = Null
  /\ UNCHANGED <<pc, workspace, script, dslText, imported, reimported, synthesized, error,
                 workspaceVersion, currentViewId>>

NextSelection ==
  \/ AddElement \/ AddRelationship
  \/ SelectElement \/ SelectRelationship
  \/ RenameElement \/ DeleteElement \/ DeleteRelationship

SpecSelection == InitStore /\ [][NextSelection]_vars

\* C30: selectedElementId and selectedRelationshipId are never both
\* non-null; selectedElementId is null or the id of an element of the
\* workspace; selectedRelationshipId is null or the id of a relationship of
\* the workspace, also after deleteElement has removed the relationships
\* attached to the deleted element.
C30_SelectionValid ==
  /\ selectedElementId = Null \/ selectedRelationshipId = Null
  /\ selectedElementId = Null \/ selectedElementId \in IdsOf(workspace.elements)
  /\ selectedRelationshipId = Null \/ selectedRelationshipId \in IdsOf(workspace.relationships)

=============================================================================
